---- MODULE Spec2Model ----
(***************************************************************************)
(* Request-result pipeline (response.json over createPipeOps().create)     *)
(* and the guarded query layer of the Task model (safeFindById, safeLimit, *)
(* safeStartsWith, applyStaticMethods) with the getAllTasks builder of the *)
(* tasks controller.                                                       *)
(***************************************************************************)
EXTENDS Integers, Sequences, FiniteSets, TLC

VARIABLES
    pipe,      \* the running createPipeOps().create call (executor position)
    res,       \* the Express response object handed to response.json
    log,       \* history: step and terminal-consumer invocations, in order
    call,      \* arguments of the response.json / create call in progress
    store,     \* the tasks collection: documents in natural order
    queries,   \* the Mongoose Query objects: conditions and options
    builders,  \* per request: the object getAllTasks returned and its query
    resp,      \* per request: the Express response of the tasks controller
    tasks,     \* suspended async functions (all, handleTaskReturn)
    last,      \* the last call of a query helper or builder method
    lookup,    \* the safeFindById call in progress
    statics,   \* TaskSchema.statics: the static methods by name
    applied,   \* the last applyStaticMethods call
    users,     \* the collection of the User model
    login,     \* the handleLogin call in progress
    filt,      \* the last call of a filterFields filter
    route      \* a controllerResolver call and the handler it returned

pvars == <<pipe, res, log, call>>

qvars == <<store, queries, builders, resp, tasks, last, lookup>>

svars == <<statics, applied>>

uvars == <<users, login, filt, route>>

vars == <<pvars, qvars, svars, uvars>>

(***************************************************************************)
(* Bounds                                                                  *)
(***************************************************************************)
\* pipeline values are integers modulo ValMod
ValMod == 3
\* longest step list handed to a pipeline
MaxSteps == 2
\* calls made on one getAllTasks builder
MaxCalls == 3
\* longest search string handed to safeStartsWith
MaxSearchLen == 2
\* longest field value a prefix filter is tried on
MaxFieldLen == 2
\* longest method list handed to applyStaticMethods
MaxMethods == 3
\* most tasks in a collection a chained query runs on
MaxDocs == 3
\* longest list of fields handed to filterFields
MaxFields == 2

(***************************************************************************)
(* Transformation steps: unary functions, plain or promise-returning,      *)
(* some of which fail.  inc and dbl do not commute.                        *)
(***************************************************************************)
StepFns == {"inc", "dbl", "asyncInc", "throw", "reject"}

\* the step returns a promise (the executor has to await it)
StepIsAsync(f) == f \in {"asyncInc", "reject"}

\* the step throws, or its promise rejects
StepFails(f) == f \in {"throw", "reject"}

\* the value a succeeding step produces from v
StepValue(f, v) ==
    CASE f = "inc"      -> (v + 1) % ValMod
      [] f = "dbl"      -> (2 * v) % ValMod
      [] f = "asyncInc" -> (v + 1) % ValMod
      [] OTHER          -> v

\* the error a failing step raises: identified by the step and its input
StepError(f, v) == [kind |-> "StepError", fn |-> f, arg |-> v]

NoError == [kind |-> "none", fn |-> "none", arg |-> 0]

Values == 0 .. (ValMod - 1)

RECURSIVE SeqsUpTo(_, _)
SeqsUpTo(S, n) ==
    IF n = 0 THEN {<<>>}
    ELSE LET shorter == SeqsUpTo(S, n - 1)
         IN shorter \cup {Append(s, x) : s \in {t \in shorter : Len(t) = n - 1}, x \in S}

StepLists == SeqsUpTo(StepFns, MaxSteps)

\* fn(...f1(v)) for the first k steps, left to right
RECURSIVE Fold(_, _, _)
Fold(steps, v, k) ==
    IF k = 0 THEN v ELSE StepValue(steps[k], Fold(steps, v, k - 1))


(***************************************************************************)
(* JavaScript argument values                                              *)
(***************************************************************************)
\* an optional argument: given with a value, or left out (undefined)
Given(v) == [given |-> TRUE, v |-> v]

AbsentNum == [given |-> FALSE, v |-> 0]

AbsentBool == [given |-> FALSE, v |-> FALSE]

\* a destructuring default: `name = d` takes d exactly when the argument is undefined
Default(arg, d) == IF arg.given THEN arg.v ELSE d

\* the pipeCallBacks argument: left out, null, or an array of steps
CallBackArgs ==
    {[kind |-> "absent", list |-> <<>>], [kind |-> "null", list |-> <<>>]}
        \cup {[kind |-> "array", list |-> l] : l \in StepLists}

StatusArgs == {AbsentNum, Given(201)}

SuccessArgs == {AbsentBool, Given(FALSE)}

(***************************************************************************)
(* The Express response object: res.status(code).json(body)                *)
(***************************************************************************)
NoBody == [success |-> FALSE, key |-> "none", value |-> 0, statusCode |-> 0]

FreshRes == [jsonCalls |-> 0, statusCode |-> 0, body |-> NoBody]

\* res.status(code).json(body): sets the status, sends the body, returns res
resStatusJson(r, code, body) ==
    [jsonCalls |-> r.jsonCalls + 1, statusCode |-> code, body |-> body]

(***************************************************************************)
(* Pipeline executor: createPipeOps().create({arrayStore, runLast}, cb)    *)
(***************************************************************************)
NoValue == [t |-> "none", v |-> 0]

ResValue == [t |-> "res", v |-> 0]

PlainValue(v) == [t |-> "val", v |-> v]

IdlePipe ==
    [pc |-> "idle", steps |-> <<>>, i |-> 0, acc |-> 0, terminal |-> "none",
     ret |-> NoValue, err |-> NoError]

\* the call in progress: its arguments as passed (statusArg, successArg, cbs)
\* and the parameters statusCode and success the callback closes over
NoCall ==
    [op |-> "none", data |-> 0, statusArg |-> AbsentNum, successArg |-> AbsentBool,
     statusCode |-> 0, success |-> FALSE,
     cbs |-> [kind |-> "absent", list |-> <<>>]]

Event(ev, idx, fn, val) == [ev |-> ev, idx |-> idx, fn |-> fn, val |-> val]

\* where the executor stands once step k has produced its value
AfterStep(p, k, v) ==
    [p EXCEPT !.acc = v, !.i = k + 1,
              !.pc = IF k + 1 > Len(p.steps) THEN "terminal" ELSE "call"]

\* entry of create: the fold starts from arrayStore at the first step of runLast
createStart(arrayStore, runLast, terminal) ==
    AfterStep([IdlePipe EXCEPT !.steps = runLast, !.terminal = terminal], 0, arrayStore)

\* the executor calls the next step with the value folded so far
createInvoke ==
    /\ pipe.pc = "call"
    /\ LET k == pipe.i
           f == pipe.steps[k]
           v == pipe.acc
           called == Append(log, Event("call", k, f, v))
       IN IF StepIsAsync(f)
          THEN /\ pipe' = [pipe EXCEPT !.pc = "await"]
               /\ log' = called
          ELSE IF StepFails(f)
          THEN /\ pipe' = [pipe EXCEPT !.pc = "rejected", !.err = StepError(f, v)]
               /\ log' = Append(called, Event("fail", k, f, v))
          ELSE /\ pipe' = AfterStep(pipe, k, StepValue(f, v))
               /\ log' = Append(called, Event("done", k, f, StepValue(f, v)))
    /\ UNCHANGED <<res, call, qvars, svars, uvars>>

\* the promise of the step being awaited settles
createSettle ==
    /\ pipe.pc = "await"
    /\ LET k == pipe.i
           f == pipe.steps[k]
           v == pipe.acc
       IN IF StepFails(f)
          THEN /\ pipe' = [pipe EXCEPT !.pc = "rejected", !.err = StepError(f, v)]
               /\ log' = Append(log, Event("fail", k, f, v))
          ELSE /\ pipe' = AfterStep(pipe, k, StepValue(f, v))
               /\ log' = Append(log, Event("done", k, f, StepValue(f, v)))
    /\ UNCHANGED <<res, call, qvars, svars, uvars>>

\* the terminal consumer of response.json:
\*   pipeData => res.status(statusCode).json({ success, pipeData, statusCode })
sendPipeData(r, c, pipeData) ==
    resStatusJson(r, c.statusCode,
        [success |-> c.success, key |-> "pipeData", value |-> pipeData,
         statusCode |-> c.statusCode])

\* after the last step the terminal consumer gets the folded value; what it
\* returns is what create resolves to
createTerminal ==
    /\ pipe.pc = "terminal"
    /\ log' = Append(log, Event("terminal", 0, pipe.terminal, pipe.acc))
    /\ IF pipe.terminal = "send"
       THEN /\ res' = sendPipeData(res, call, pipe.acc)
            /\ pipe' = [pipe EXCEPT !.pc = "fulfilled", !.ret = ResValue]
       ELSE /\ res' = res
            /\ pipe' = [pipe EXCEPT !.pc = "fulfilled", !.ret = PlainValue(pipe.acc)]
    /\ UNCHANGED <<call, qvars, svars, uvars>>

\* a caller other than response.json runs a pipeline whose terminal consumer
\* hands back the value it receives
create(arrayStore, runLast) ==
    /\ call.op = "none"
    /\ call' = [NoCall EXCEPT !.op = "create", !.data = arrayStore,
                              !.cbs = [kind |-> "array", list |-> runLast]]
    /\ pipe' = createStart(arrayStore, runLast, "ident")
    /\ UNCHANGED <<res, log, qvars, svars, uvars>>

(***************************************************************************)
(* response.json({ res, data, statusCode = 200, success = true,            *)
(*                 pipeCallBacks = [] })                                   *)
(***************************************************************************)
\* pipeCallBacks?.length is truthy
HasCallBacks(cbs) == cbs.kind = "array" /\ Len(cbs.list) # 0

Reverse(s) == [k \in 1 .. Len(s) |-> s[Len(s) + 1 - k]]

\* json handing the callbacks to the executor in the opposite order
json_reversed(data, statusCode, success, pipeCallBacks) ==
    /\ call.op = "none"
    /\ LET code == Default(statusCode, 200)
           ok == Default(success, TRUE)
           c == [op |-> "json", data |-> data, statusArg |-> statusCode,
                 successArg |-> success, statusCode |-> code, success |-> ok,
                 cbs |-> pipeCallBacks]
       IN /\ call' = c
          /\ IF HasCallBacks(pipeCallBacks)
             THEN /\ pipe' = createStart(data, Reverse(pipeCallBacks.list), "send")
                  /\ res' = res
             ELSE /\ pipe' = pipe
                  /\ res' = resStatusJson(res, code,
                                [success |-> ok, key |-> "data", value |-> data,
                                 statusCode |-> code])
    /\ log' = log
    /\ UNCHANGED <<qvars, svars, uvars>>

\* json sending the response at once as well as starting the pipeline
json_eager(data, statusCode, success, pipeCallBacks) ==
    /\ call.op = "none"
    /\ LET code == Default(statusCode, 200)
           ok == Default(success, TRUE)
           c == [op |-> "json", data |-> data, statusArg |-> statusCode,
                 successArg |-> success, statusCode |-> code, success |-> ok,
                 cbs |-> pipeCallBacks]
       IN /\ call' = c
          /\ pipe' = IF HasCallBacks(pipeCallBacks)
                     THEN createStart(data, pipeCallBacks.list, "send")
                     ELSE pipe
          /\ res' = resStatusJson(res, code,
                        [success |-> ok, key |-> "data", value |-> data,
                         statusCode |-> code])
    /\ log' = log
    /\ UNCHANGED <<qvars, svars, uvars>>

\* json passing the executor a callback that does not send the response
json_noSend(data, statusCode, success, pipeCallBacks) ==
    /\ call.op = "none"
    /\ LET code == Default(statusCode, 200)
           ok == Default(success, TRUE)
           c == [op |-> "json", data |-> data, statusArg |-> statusCode,
                 successArg |-> success, statusCode |-> code, success |-> ok,
                 cbs |-> pipeCallBacks]
       IN /\ call' = c
          /\ IF HasCallBacks(pipeCallBacks)
             THEN /\ pipe' = createStart(data, pipeCallBacks.list, "ident")
                  /\ res' = res
             ELSE /\ pipe' = pipe
                  /\ res' = resStatusJson(res, code,
                                [success |-> ok, key |-> "data", value |-> data,
                                 statusCode |-> code])
    /\ log' = log
    /\ UNCHANGED <<qvars, svars, uvars>>

\* json answering 200 on the branch without callbacks, whatever statusCode is
json_fixedStatus(data, statusCode, success, pipeCallBacks) ==
    /\ call.op = "none"
    /\ LET code == Default(statusCode, 200)
           ok == Default(success, TRUE)
           c == [op |-> "json", data |-> data, statusArg |-> statusCode,
                 successArg |-> success, statusCode |-> code, success |-> ok,
                 cbs |-> pipeCallBacks]
       IN /\ call' = c
          /\ IF HasCallBacks(pipeCallBacks)
             THEN /\ pipe' = createStart(data, pipeCallBacks.list, "send")
                  /\ res' = res
             ELSE /\ pipe' = pipe
                  /\ res' = resStatusJson(res, 200,
                                [success |-> ok, key |-> "data", value |-> data,
                                 statusCode |-> 200])
    /\ log' = log
    /\ UNCHANGED <<qvars, svars, uvars>>

json(data, statusCode, success, pipeCallBacks) ==
    /\ call.op = "none"
    /\ LET code == Default(statusCode, 200)
           ok == Default(success, TRUE)
           c == [op |-> "json", data |-> data, statusArg |-> statusCode,
                 successArg |-> success, statusCode |-> code, success |-> ok,
                 cbs |-> pipeCallBacks]
       IN /\ call' = c
          /\ IF HasCallBacks(pipeCallBacks)
             THEN /\ pipe' = createStart(data, pipeCallBacks.list, "send")
                  /\ res' = res
             ELSE /\ pipe' = pipe
                  /\ res' = resStatusJson(res, code,
                                [success |-> ok, key |-> "data", value |-> data,
                                 statusCode |-> code])
    /\ log' = log
    /\ UNCHANGED <<qvars, svars, uvars>>

(***************************************************************************)
(* JavaScript values passed to the query helpers.  A number is num/den     *)
(* (den 2 for a half such as 1.5); a string is a sequence of characters.   *)
(***************************************************************************)
JsVal(t, num, den, s) == [t |-> t, num |-> num, den |-> den, s |-> s]

Undefined == JsVal("undefined", 0, 1, <<>>)

Null == JsVal("null", 0, 1, <<>>)

NaN == JsVal("NaN", 0, 1, <<>>)

Num(n) == JsVal("number", n, 1, <<>>)

Half(n) == JsVal("number", n, 2, <<>>)

Str(s) == JsVal("string", 0, 1, s)

\* !v is true
Falsy(v) ==
    \/ v.t \in {"undefined", "null", "NaN"}
    \/ v.t = "number" /\ v.num = 0
    \/ v.t = "string" /\ v.s = <<>>

(***************************************************************************)
(* Regular expressions: the pattern source is a sequence of characters.    *)
(***************************************************************************)
Letters == {"a", "A", "b"}

\* the characters of the class /[.*+?^${}()|[\]\\]/ that escapeRegex escapes
MetaChars == {".", "*", "+", "?", "^", "$", "{", "}", "(", ")", "|", "[", "]", "\\"}

Chars == Letters \cup MetaChars

\* escapeRegex without the dot in its character class
RECURSIVE escapeRegex_noDot(_)
escapeRegex_noDot(str) ==
    IF str = <<>> THEN <<>>
    ELSE (IF Head(str) \in MetaChars \ {"."} THEN <<"\\", Head(str)>> ELSE <<Head(str)>>)
             \o escapeRegex_noDot(Tail(str))

\* str.replace(/[.*+?^${}()|[\]\\]/g, '\\$&'): a backslash before every
\* character of the class, the other characters as they are
RECURSIVE escapeRegex(_)
escapeRegex(str) ==
    IF str = <<>> THEN <<>>
    ELSE (IF Head(str) \in MetaChars THEN <<"\\", Head(str)>> ELSE <<Head(str)>>)
             \o escapeRegex(Tail(str))

\* the source of new RegExp(`^${escapeRegex(data)}`, 'i')
startsWithSource(data) == <<"^">> \o escapeRegex(data)

Token(k, c) == [k |-> k, c |-> c]

\* The tokens of a pattern source.  A backslash makes the next syntax
\* character a literal; before a letter it is a class or assertion escape
\* ("esc"); at the end of the source it is a syntax error ("bad").
RECURSIVE Tokens(_)
Tokens(src) ==
    IF src = <<>> THEN <<>>
    ELSE LET c == Head(src)
         IN IF c = "\\"
            THEN IF Len(src) = 1 THEN <<Token("bad", c)>>
                 ELSE <<Token(IF src[2] \in MetaChars THEN "lit" ELSE "esc", src[2])>>
                          \o Tokens(Tail(Tail(src)))
            ELSE <<Token(CASE c = "." -> "any"
                           [] c = "^" -> "bol"
                           [] c = "$" -> "eol"
                           [] c \in {"*", "+", "?"} -> "quant"
                           [] c \in {"(", ")", "[", "|"} -> "group"
                           [] OTHER -> "lit", c)>>
                     \o Tokens(Tail(src))

\* Terms of a pattern: an atom or assertion with its quantifier ("1" when it
\* has none).  A quantifier with nothing to repeat gives a "bad" term; a "?"
\* after a quantifier only makes it lazy.
RECURSIVE Terms(_, _)
Terms(toks, acc) ==
    IF toks = <<>> THEN acc
    ELSE LET tk == Head(toks)
             n == Len(acc)
         IN IF tk.k # "quant"
            THEN Terms(Tail(toks), Append(acc, [k |-> tk.k, c |-> tk.c, q |-> "1", lazy |-> FALSE]))
            ELSE IF n = 0 \/ acc[n].k \notin {"lit", "any"} \/ acc[n].lazy
            THEN Terms(Tail(toks), Append(acc, [k |-> "bad", c |-> tk.c, q |-> "1", lazy |-> FALSE]))
            ELSE IF acc[n].q = "1"
            THEN Terms(Tail(toks), [acc EXCEPT ![n].q = tk.c])
            ELSE IF tk.c = "?"
            THEN Terms(Tail(toks), [acc EXCEPT ![n].lazy = TRUE])
            ELSE Terms(Tail(toks), Append(acc, [k |-> "bad", c |-> tk.c, q |-> "1", lazy |-> FALSE]))

\* toUpperCase on the letters used here
UpperCase ==
    ("a" :> "A") @@ ("b" :> "B") @@ ("e" :> "E") @@ ("h" :> "H") @@ ("k" :> "K")
        @@ ("l" :> "L") @@ ("p" :> "P") @@ ("s" :> "S") @@ ("t" :> "T")

\* Canonicalize of the i flag: the upper case of the character
Canon(c) == IF c \in DOMAIN UpperCase THEN UpperCase[c] ELSE c

AtomMatches(term, c, ignoreCase) ==
    \/ term.k = "any"
    \/ term.k = "lit" /\ (IF ignoreCase THEN Canon(term.c) = Canon(c) ELSE term.c = c)

\* the terms from the i-th on match x from position pos on (backtracking)
RECURSIVE MatchFrom(_, _, _, _, _)
MatchFrom(terms, i, x, pos, ignoreCase) ==
    IF i > Len(terms) THEN TRUE
    ELSE LET term == terms[i]
             here == pos <= Len(x) /\ AtomMatches(term, x[pos], ignoreCase)
         IN CASE term.k = "bol" -> pos = 1 /\ MatchFrom(terms, i + 1, x, pos, ignoreCase)
              [] term.k = "eol" -> pos = Len(x) + 1 /\ MatchFrom(terms, i + 1, x, pos, ignoreCase)
              [] term.q = "1" -> here /\ MatchFrom(terms, i + 1, x, pos + 1, ignoreCase)
              [] term.q = "?" -> \/ here /\ MatchFrom(terms, i + 1, x, pos + 1, ignoreCase)
                                 \/ MatchFrom(terms, i + 1, x, pos, ignoreCase)
              [] term.q = "*" -> \/ MatchFrom(terms, i + 1, x, pos, ignoreCase)
                                 \/ here /\ MatchFrom(terms, i, x, pos + 1, ignoreCase)
              [] term.q = "+" -> here /\ (\/ MatchFrom(terms, i + 1, x, pos + 1, ignoreCase)
                                          \/ MatchFrom(terms, i, x, pos + 1, ignoreCase))

\* new RegExp(src, flags).test(x): "match" or "nomatch"; "other" when the
\* source is a syntax error or uses groups, classes, alternation or letter
\* escapes, which are not interpreted here
RegExpTest(src, ignoreCase, x) ==
    LET terms == Terms(Tokens(src), <<>>)
    IN IF \E i \in 1 .. Len(terms) : terms[i].k \in {"bad", "group", "esc"}
       THEN "other"
       ELSE IF \E pos \in 1 .. (Len(x) + 1) : MatchFrom(terms, 1, x, pos, ignoreCase)
       THEN "match"
       ELSE "nomatch"

\* x begins with the characters of s, compared without regard to case
StartsWithIgnoreCase(x, s) ==
    /\ Len(x) >= Len(s)
    /\ \A k \in 1 .. Len(s) : Canon(x[k]) = Canon(s[k])

(***************************************************************************)
(* Validation rules of validators/exampleSchema (taskSchema)               *)
(***************************************************************************)
\* largest limit the limit rule accepts
LimitMax == 3

\* taskSchema.limit.safeParse(n): a positive integer within bounds
limitRule(n) ==
    [success |-> n.t = "number" /\ n.den = 1 /\ n.num >= 1 /\ n.num <= LimitMax,
     data |-> n.num]

\* taskSchema.searchParam.safeParse(searchParam): a string
searchParamRule(searchParam) ==
    [success |-> searchParam.t = "string", data |-> searchParam.s]

(***************************************************************************)
(* Errors of utils/error                                                   *)
(***************************************************************************)
Error(kind, msg, key) == [kind |-> kind, msg |-> msg, key |-> key]

NoErr == Error("none", "", "")

BadRequestError(msg, key) == Error("BadRequestError", msg, key)

NotFoundError(msg) == Error("NotFoundError", msg, "")

(***************************************************************************)
(* The Task model: its schema paths, its collection, its queries           *)
(***************************************************************************)
\* paths of TaskSchema: the declared description, and _id and __v which
\* Mongoose adds to every schema
SchemaPaths == {"description", "_id", "__v"}

\* schema.paths is a plain object: `in` also finds what Object.prototype holds
ObjectPrototypeKeys == {"toString", "constructor"}

\* key in Task.schema.paths
KeyInPaths(key) == key \in SchemaPaths \cup ObjectPrototypeKeys

\* keys a caller filters by
Keys == {"description", "title", "toString"}

Doc(id, description) == [id |-> id, description |-> description]

\* the collection the query scenarios run on
TaskStore ==
    << Doc(1, <<"a", ".", "b">>), Doc(2, <<"A", ".", "A">>), Doc(3, <<"a", "b", "b">>) >>

NoPattern == <<>>

\* Task.find({}): no condition, no limit
\* execs counts the times exec() was invoked on the query
NewQuery ==
    [made |-> TRUE, conds |-> [k \in Keys |-> NoPattern], lim |-> 0, execs |-> 0]

NoQuery ==
    [made |-> FALSE, conds |-> [k \in Keys |-> NoPattern], lim |-> 0, execs |-> 0]

\* a limit that also runs the query
queryLimit_exec(q, n) == [q EXCEPT !.lim = n, !.execs = @ + 1]

\* Query.prototype.limit(n): sets the option on the query and returns it
queryLimit(q, n) == [q EXCEPT !.lim = n]

\* Query.prototype.where(key, regexp): sets the condition and returns the query
queryWhere(q, key, source) == [q EXCEPT !.conds[key] = source]

\* a document passes a condition when its field matches the expression; the
\* documents have no field other than description to match
DocMatches(doc, q) ==
    \A k \in Keys :
        q.conds[k] # NoPattern =>
            /\ k = "description"
            /\ RegExpTest(q.conds[k], TRUE, doc.description) = "match"

Take(s, n) == IF Len(s) <= n THEN s ELSE SubSeq(s, 1, n)

\* an exec that cuts the collection to the limit before it filters
queryExec_limitFirst(docs, q) ==
    SelectSeq(IF q.lim = 0 THEN docs ELSE Take(docs, q.lim), LAMBDA d : DocMatches(d, q))

\* Query.prototype.exec(): the matching documents, at most lim when a limit is set
queryExec(docs, q) ==
    LET hits == SelectSeq(docs, LAMBDA d : DocMatches(d, q))
    IN IF q.lim = 0 THEN hits ELSE Take(hits, q.lim)

(***************************************************************************)
(* Query helpers of TaskMethods.  Each yields what the call did: the query *)
(* as it left it, whether it threw, and which collaborators it called.     *)
(***************************************************************************)
Outcome(threw, err, query, parsed, limitCalled, whereCalled) ==
    [threw |-> threw, err |-> err, query |-> query, parsed |-> parsed,
     limitCalled |-> limitCalled, whereCalled |-> whereCalled]

\* safeLimit applying the limit before it validates it
safeLimit_applyFirst(this, n) ==
    IF Falsy(n) THEN Outcome(FALSE, NoErr, this, FALSE, FALSE, FALSE)
    ELSE LET r == limitRule(n)
         IN IF ~r.success
            THEN Outcome(TRUE, BadRequestError("Invalid Limit", ""),
                         queryLimit(this, n.num), TRUE, TRUE, FALSE)
            ELSE Outcome(FALSE, NoErr, queryLimit(this, r.data), TRUE, TRUE, FALSE)

\* safeLimit without its guard for a missing limit
safeLimit_noGuard(this, n) ==
    LET r == limitRule(n)
    IN IF ~r.success
       THEN Outcome(TRUE, BadRequestError("Invalid Limit", ""), this, TRUE, FALSE, FALSE)
       ELSE Outcome(FALSE, NoErr, queryLimit(this, r.data), TRUE, TRUE, FALSE)

safeLimit(this, n) ==
    IF Falsy(n) THEN Outcome(FALSE, NoErr, this, FALSE, FALSE, FALSE)
    ELSE LET r == limitRule(n)
         IN IF ~r.success
            THEN Outcome(TRUE, BadRequestError("Invalid Limit", ""), this, TRUE, FALSE, FALSE)
            ELSE Outcome(FALSE, NoErr, queryLimit(this, r.data), TRUE, TRUE, FALSE)

\* safeStartsWith(searchParam, key, Task); the message of the key error is
\* `No Property ${key} found`
safeStartsWith(this, searchParam, key) ==
    IF Falsy(searchParam) THEN Outcome(FALSE, NoErr, this, FALSE, FALSE, FALSE)
    ELSE LET r == searchParamRule(searchParam)
         IN IF ~r.success
            THEN Outcome(TRUE, BadRequestError("Invalid searchParam", ""), this, TRUE, FALSE, FALSE)
            ELSE IF ~KeyInPaths(key)
            THEN Outcome(TRUE, BadRequestError("No Property found", key), this, TRUE, FALSE, FALSE)
            ELSE Outcome(FALSE, NoErr, queryWhere(this, key, startsWithSource(r.data)),
                         TRUE, FALSE, TRUE)

(***************************************************************************)
(* A query used on its own: Task.find({}).safeStartsWith(..).safeLimit(..) *)
(***************************************************************************)
\* the requests the tasks controller is called for; each call of
\* getAllTasks closes over a query of its own
Reqs == {1, 2}

\* the query chained on directly; query r belongs to the builder of request r
Direct == 0

QueryIds == {Direct} \cup Reqs

NoOutcome == Outcome(FALSE, NoErr, NoQuery, FALSE, FALSE, FALSE)

AbsentKey == [given |-> FALSE, v |-> ""]

\* what the last call was given, found and did; ret is what it returned
\* ("query", "builder", "promise") or "throw"
NoLast ==
    [op |-> "none", q |-> Direct, arg |-> Undefined, key |-> AbsentKey,
     pre |-> NoQuery, preRef |-> Direct, out |-> NoOutcome, ret |-> "none",
     result |-> <<>>]

Returned(out, ref) == IF out.threw THEN "throw" ELSE ref

find ==
    /\ ~queries[Direct].made
    /\ queries' = [queries EXCEPT ![Direct] = NewQuery]
    /\ last' = [NoLast EXCEPT !.op = "find", !.ret = "query"]
    /\ UNCHANGED <<pvars, svars, uvars, store, builders, resp, tasks, lookup>>

querySafeLimit(n) ==
    /\ queries[Direct].made
    /\ LET out == safeLimit(queries[Direct], n)
       IN /\ queries' = [queries EXCEPT ![Direct] = out.query]
          /\ last' = [NoLast EXCEPT !.op = "safeLimit", !.arg = n,
                                    !.pre = queries[Direct], !.out = out,
                                    !.ret = Returned(out, "query")]
    /\ UNCHANGED <<pvars, svars, uvars, store, builders, resp, tasks, lookup>>

querySafeStartsWith(searchParam, key) ==
    /\ queries[Direct].made
    /\ LET out == safeStartsWith(queries[Direct], searchParam, key)
       IN /\ queries' = [queries EXCEPT ![Direct] = out.query]
          /\ last' = [NoLast EXCEPT !.op = "safeStartsWith", !.arg = searchParam,
                                    !.key = Given(key), !.pre = queries[Direct],
                                    !.out = out, !.ret = Returned(out, "query")]
    /\ UNCHANGED <<pvars, svars, uvars, store, builders, resp, tasks, lookup>>

exec ==
    /\ queries[Direct].made
    /\ queries[Direct].execs < MaxCalls
    /\ queries' = [queries EXCEPT ![Direct].execs = @ + 1]
    /\ last' = [NoLast EXCEPT !.op = "exec", !.pre = queries[Direct],
                              !.result = queryExec(store, queries[Direct]),
                              !.ret = "promise"]
    /\ UNCHANGED <<pvars, svars, uvars, store, builders, resp, tasks, lookup>>

(***************************************************************************)
(* The handler createHandleReturn(error, response) makes, and the          *)
(* response of a request                                                   *)
(***************************************************************************)
\* calls are the helper calls the handlers made on the response, handled the
\* handler invocations made directly or by getTaskById on it
FreshResp ==
    [headersSent |-> FALSE, sends |-> 0, kind |-> "none", statusCode |-> 0,
     err |-> NoErr, data |-> <<>>, lateSend |-> FALSE, calls |-> <<>>, handled |-> 0]

\* res.status(code).json(body); Express refuses a second send on a response
respSend(rs, kind, code, err, data) ==
    IF rs.headersSent
    THEN [rs EXCEPT !.lateSend = TRUE]
    ELSE [rs EXCEPT !.headersSent = TRUE, !.sends = rs.sends + 1, !.kind = kind,
                    !.statusCode = code, !.err = err, !.data = data]

\* an array or a document as a value
ObjectValue == JsVal("object", 0, 1, <<>>)

\* a promise that rejects with err
Rejected(err) == [stage |-> "rejected", err |-> err, val |-> Undefined, data |-> <<>>]

\* a promise that resolves to the value val; data holds the documents of an
\* array or the one document of an object
Resolved(val, data) == [stage |-> "fulfilled", err |-> NoErr, val |-> val, data |-> data]

\* a suspended function of request r; what the controller awaits from a
\* query resolves to an array
Task(r, stage, err, data) ==
    [r |-> r, stage |-> stage, err |-> err, data |-> data, val |-> ObjectValue]

\* the handler of request r waiting for dataPromise
TaskOf(r, dataPromise) ==
    [Task(r, dataPromise.stage, dataPromise.err, dataPromise.data)
        EXCEPT !.val = dataPromise.val]

\* `if (res.headersSent) return` and `await dataPromise`
handleTaskReturnAwait(task) ==
    IF resp[task.r].headersSent THEN tasks ELSE Append(tasks, task)

\* a handler that drops what it is given
handleTaskReturnCall_drop(r, stage, err, data) == tasks

\* handleTaskReturn(res, dataPromise) up to its await: nothing is done once
\* the headers are sent, otherwise the handler waits for dataPromise
handleTaskReturnCall(r, stage, err, data) ==
    handleTaskReturnAwait(Task(r, stage, err, data))

HelperCall(name, err, data) == [name |-> name, err |-> err, data |-> data]

\* the error res.json raises on a response whose headers are sent
HeadersSentError ==
    Error("Error", "Cannot set headers after they are sent to the client",
          "ERR_HTTP_HEADERS_SENT")

\* error.throwCustom(res, err): the error response of err
throwCustom(rs, err) ==
    [respSend(rs, "custom", 0, err, <<>>)
        EXCEPT !.calls = Append(@, HelperCall("throwCustom", err, <<>>))]

\* error.throwNotFound(res): the 404 response
throwNotFound(rs) ==
    [respSend(rs, "notFound", 404, NoErr, <<>>)
        EXCEPT !.calls = Append(@, HelperCall("throwNotFound", NoErr, <<>>))]

\* response.ok({ res, data }): res.status(200).json(...)
responseOk(rs, data) ==
    [respSend(rs, "ok", 200, NoErr, data)
        EXCEPT !.calls = Append(@, HelperCall("ok", NoErr, data))]

\* a handler for which an empty list is no data
handleTaskReturnResume_emptyIsNotFound(rs, task) ==
    IF task.stage = "rejected"
    THEN throwCustom(rs, task.err)
    ELSE IF Falsy(task.val) \/ task.data = <<>>
         THEN throwNotFound(rs)
         ELSE responseOk(rs, task.data)

\* handleTaskReturn after its await: a rejection goes to error.throwCustom,
\* a falsy value to error.throwNotFound, anything else to response.ok, and
\* what response.ok throws to error.throwCustom
handleTaskReturnResume(rs, task) ==
    IF task.stage = "rejected"
    THEN throwCustom(rs, task.err)
    ELSE IF Falsy(task.val)
         THEN throwNotFound(rs)
         ELSE IF rs.headersSent
              THEN throwCustom(responseOk(rs, task.data), HeadersSentError)
              ELSE responseOk(rs, task.data)

(***************************************************************************)
(* getAllTasks(req, res): the builder over `let query = Task.find({})`     *)
(***************************************************************************)
NoBuilder == [made |-> FALSE, query |-> Direct, calls |-> 0]

\* getAllTasks keeping its query in one place for every request
getAllTasks_shared(r) ==
    /\ ~builders[r].made
    /\ queries' = [queries EXCEPT ![1] = NewQuery]
    /\ builders' = [builders EXCEPT ![r] = [made |-> TRUE, query |-> 1, calls |-> 0]]
    /\ last' = [NoLast EXCEPT !.op = "getAllTasks", !.q = r, !.ret = "builder"]
    /\ UNCHANGED <<pvars, svars, uvars, store, resp, tasks, lookup>>

getAllTasks(r) ==
    /\ ~builders[r].made
    /\ queries' = [queries EXCEPT ![r] = NewQuery]
    /\ builders' = [builders EXCEPT ![r] = [made |-> TRUE, query |-> r, calls |-> 0]]
    /\ last' = [NoLast EXCEPT !.op = "getAllTasks", !.q = r, !.ret = "builder"]
    /\ UNCHANGED <<pvars, svars, uvars, store, resp, tasks, lookup>>

limit(r, n) ==
    /\ builders[r].made
    /\ builders[r].calls < MaxCalls
    /\ LET q == builders[r].query
           out == safeLimit(queries[q], n)
       IN /\ queries' = [queries EXCEPT ![q] = out.query]
          /\ builders' = [builders EXCEPT ![r].calls = @ + 1,
                                          ![r].query = IF out.threw THEN @ ELSE q]
          /\ tasks' = IF out.threw
                      THEN handleTaskReturnCall(r, "rejected", out.err, <<>>)
                      ELSE tasks
          /\ last' = [NoLast EXCEPT !.op = "limit", !.q = r, !.arg = n,
                                    !.pre = queries[q], !.preRef = q, !.out = out,
                                    !.ret = IF out.threw THEN "promise" ELSE "builder"]
    /\ UNCHANGED <<pvars, svars, uvars, store, resp, lookup>>

startsWith(r, searchParam, key) ==
    /\ builders[r].made
    /\ builders[r].calls < MaxCalls
    /\ LET q == builders[r].query
           sp == IF searchParam = Undefined THEN Str(<<>>) ELSE searchParam
           k == Default(key, "description")
           skip == Falsy(sp) \/ k = ""
           out == IF skip
                  THEN Outcome(FALSE, NoErr, queries[q], FALSE, FALSE, FALSE)
                  ELSE safeStartsWith(queries[q], sp, k)
       IN /\ queries' = [queries EXCEPT ![q] = out.query]
          /\ builders' = [builders EXCEPT ![r].calls = @ + 1,
                                          ![r].query = IF out.threw THEN @ ELSE q]
          /\ tasks' = IF out.threw
                      THEN handleTaskReturnCall(r, "rejected", out.err, <<>>)
                      ELSE tasks
          /\ last' = [NoLast EXCEPT !.op = "startsWith", !.q = r, !.arg = searchParam,
                                    !.key = key, !.pre = queries[q], !.preRef = q,
                                    !.out = out,
                                    !.ret = IF out.threw THEN "promise" ELSE "builder"]
    /\ UNCHANGED <<pvars, svars, uvars, store, resp, lookup>>

\* all(): query.exec() is invoked, and `await` suspends the function until
\* the store answers
all(r) ==
    /\ builders[r].made
    /\ builders[r].calls < MaxCalls
    /\ builders' = [builders EXCEPT ![r].calls = @ + 1]
    /\ queries' = [queries EXCEPT ![builders[r].query].execs = @ + 1]
    /\ tasks' = Append(tasks, Task(r, "exec", NoErr, <<>>))
    /\ last' = [NoLast EXCEPT !.op = "all", !.q = r, !.pre = queries[builders[r].query],
                              !.preRef = builders[r].query, !.ret = "promise"]
    /\ UNCHANGED <<pvars, svars, uvars, store, resp, lookup>>

Remove(s, i) == [k \in 1 .. (Len(s) - 1) |-> IF k < i THEN s[k] ELSE s[k + 1]]

\* a suspended function goes on: all() hands the documents to
\* handleTaskReturn; handleTaskReturn sends the response
resume(i) ==
    /\ i \in 1 .. Len(tasks)
    /\ LET task == tasks[i]
           r == task.r
           rest == Remove(tasks, i)
       IN IF task.stage = "exec"
          THEN /\ tasks' = IF resp[r].headersSent THEN rest
                           ELSE Append(rest, Task(r, "fulfilled", NoErr,
                                     queryExec(store, queries[builders[r].query])))
               /\ resp' = resp
          ELSE /\ tasks' = rest
               /\ resp' = [resp EXCEPT ![r] = handleTaskReturnResume(resp[r], task)]
    /\ last' = [NoLast EXCEPT !.op = "resume", !.q = tasks[i].r, !.ret = tasks[i].stage]
    /\ UNCHANGED <<pvars, svars, uvars, store, queries, builders, lookup>>

\* handleTaskReturn(res, dataPromise) called on its own
handleTaskReturn(r, dataPromise) ==
    /\ resp[r].handled < MaxCalls
    /\ tasks' = handleTaskReturnAwait(TaskOf(r, dataPromise))
    /\ resp' = [resp EXCEPT ![r].handled = @ + 1]
    /\ last' = [NoLast EXCEPT !.op = "handleTaskReturn", !.q = r,
                              !.ret = dataPromise.stage]
    /\ UNCHANGED <<pvars, svars, uvars, store, queries, builders, lookup>>

(***************************************************************************)
(* Task.safeFindById(id)                                                   *)
(***************************************************************************)
ObjectId(k) == [wf |-> TRUE, k |-> k]

\* an id that Types.ObjectId.isValid rejects
Malformed == [wf |-> FALSE, k |-> 0]

\* Types.ObjectId.isValid(id)
isValid(id) == id.wf

IdInputs == {ObjectId(1), ObjectId(3), ObjectId(4), Malformed}

NoDoc == Doc(0, <<>>)

\* ret is what the call handed back to its caller: "promise", or "throw" for
\* an exception thrown at the call
IdleLookup ==
    [pc |-> "idle", id |-> Malformed, findCalls |-> 0, doc |-> NoDoc, err |-> NoErr,
     ret |-> "none"]

\* this.findById(id).exec(): the document with that id, or null
findById(docs, id) ==
    IF \E i \in 1 .. Len(docs) : docs[i].id = id.k
    THEN docs[CHOOSE i \in 1 .. Len(docs) : docs[i].id = id.k]
    ELSE NoDoc

\* safeFindById looking the id up without validating it
safeFindById_noCheck(id) ==
    /\ lookup.pc = "idle"
    /\ lookup' = [lookup EXCEPT !.pc = "pending", !.id = id, !.findCalls = @ + 1,
                                  !.ret = "promise"]
    /\ UNCHANGED <<pvars, svars, uvars, store, queries, builders, resp, tasks, last>>

\* safeFindById up to `await this.findById(id).exec()`; it is an async
\* function, so the error of a malformed id rejects its promise
safeFindById(id) ==
    /\ lookup.pc = "idle"
    /\ IF ~isValid(id)
       THEN lookup' = [lookup EXCEPT !.pc = "rejected", !.id = id, !.ret = "promise",
                                     !.err = BadRequestError("Invalid ID format", "")]
       ELSE lookup' = [lookup EXCEPT !.pc = "pending", !.id = id, !.findCalls = @ + 1,
                                     !.ret = "promise"]
    /\ UNCHANGED <<pvars, svars, uvars, store, queries, builders, resp, tasks, last>>

\* safeFindById after the await
safeFindByIdResume ==
    /\ lookup.pc = "pending"
    /\ LET document == findById(store, lookup.id)
       IN IF document = NoDoc
          THEN lookup' = [lookup EXCEPT !.pc = "rejected",
                                        !.err = NotFoundError("Task not found")]
          ELSE lookup' = [lookup EXCEPT !.pc = "fulfilled", !.doc = document]
    /\ UNCHANGED <<pvars, svars, uvars, store, queries, builders, resp, tasks, last>>

\* the promise Task.safeFindById(id) returns on the collection docs
safeFindByIdPromise(docs, id) ==
    IF ~isValid(id)
    THEN Rejected(BadRequestError("Invalid ID format", ""))
    ELSE IF findById(docs, id) = NoDoc
         THEN Rejected(NotFoundError("Task not found"))
         ELSE Resolved(ObjectValue, <<findById(docs, id)>>)

\* getTaskById(req, res).where({ id })
where(r, id) ==
    /\ resp[r].handled < MaxCalls
    /\ tasks' = handleTaskReturnAwait(TaskOf(r, safeFindByIdPromise(store, id)))
    /\ resp' = [resp EXCEPT ![r].handled = @ + 1]
    /\ last' = [NoLast EXCEPT !.op = "where", !.q = r, !.ret = "promise"]
    /\ UNCHANGED <<pvars, svars, uvars, store, queries, builders, lookup>>

(***************************************************************************)
(* applyStaticMethods(TaskSchema, methods)                                 *)
(***************************************************************************)
Fn(k) == JsVal("function", k, 1, <<>>)

\* typeof v
TypeOf(v) ==
    CASE v.t = "null" -> "object"
      [] v.t = "NaN"  -> "number"
      [] OTHER        -> v.t

\* an element of methods: an object with name and fn, or null
Entry(name, fn) == [t |-> "object", name |-> name, fn |-> fn]

NullEntry == [t |-> "null", name |-> Undefined, fn |-> Undefined]

\* the methods argument: an array, or a value that is none
Methods(t, list) == [t |-> t, list |-> list]

\* the schema argument: TaskSchema, or nothing
NoSchema == FALSE

TaskSchema == TRUE

ParamError(kind, param, expected, received) ==
    [kind |-> kind, param |-> param, expected |-> expected, received |-> received]

NoParamError == ParamError("none", "", "", "")

InvalidParamTypeError(param, expected, received) ==
    ParamError("InvalidParamTypeError", param, expected, received)

MissingParamError(param) == ParamError("MissingParamError", param, "", "")

\* `const { name, fn } of methods` on null
TypeError == ParamError("TypeError", "", "", "")

\* names of static methods: safeFindById is installed when the model is defined
StaticNames == {<<"safeFindById">>, <<"a">>, <<"b">>}

InitialStatics ==
    [nm \in StaticNames |-> IF nm = <<"safeFindById">> THEN Fn(0) ELSE Undefined]

Applied(threw, err, st) == [threw |-> threw, err |-> err, statics |-> st]

\* the loop body raising the combined error when either field is invalid
EntryError_either(e) ==
    IF e.t = "null" THEN TypeError
    ELSE IF TypeOf(e.fn) # "function" \/ TypeOf(e.name) # "string"
    THEN InvalidParamTypeError("method", "{fn: function, name: string}", "")
    ELSE NoParamError

\* the error the loop body throws for an entry, or none
EntryError(e) ==
    IF e.t = "null" THEN TypeError
    ELSE IF TypeOf(e.fn) # "function" /\ TypeOf(e.name) # "string"
    THEN InvalidParamTypeError("method", "{fn: function, name: string}", "")
    ELSE IF TypeOf(e.name) # "string"
    THEN InvalidParamTypeError("method", "string", TypeOf(e.name))
    ELSE IF TypeOf(e.fn) # "function"
    THEN InvalidParamTypeError("method", "function", TypeOf(e.name))
    ELSE NoParamError

\* the loop that goes on past an invalid entry and throws at its end
RECURSIVE applyLoop_skipInvalid(_, _, _, _)
applyLoop_skipInvalid(st, list, i, err) ==
    IF i > Len(list) THEN Applied(err # NoParamError, err, st)
    ELSE IF EntryError(list[i]) # NoParamError
    THEN applyLoop_skipInvalid(st, list, i + 1,
             IF err = NoParamError THEN EntryError(list[i]) ELSE err)
    ELSE applyLoop_skipInvalid([st EXCEPT ![list[i].name.s] = list[i].fn], list, i + 1, err)

\* for (const { name, fn } of methods): check the entry, then
\* TaskSchema.statics[name] = fn
RECURSIVE applyLoop(_, _, _)
applyLoop(st, list, i) ==
    IF i > Len(list) THEN Applied(FALSE, NoParamError, st)
    ELSE IF EntryError(list[i]) # NoParamError
    THEN Applied(TRUE, EntryError(list[i]), st)
    ELSE applyLoop([st EXCEPT ![list[i].name.s] = list[i].fn], list, i + 1)

\* applyStaticMethods that installs what it can of the list
applyStaticMethods_skipInvalid(st, schema, methods) ==
    IF methods.t # "array"
    THEN Applied(TRUE, InvalidParamTypeError("methods", "Array", TypeOf(methods)), st)
    ELSE IF schema = NoSchema
    THEN Applied(TRUE, MissingParamError("TaskSchema"), st)
    ELSE applyLoop_skipInvalid(st, methods.list, 1, NoParamError)

\* applyStaticMethods that never looks at the schema argument
applyStaticMethods_noSchemaCheck(st, schema, methods) ==
    IF methods.t # "array"
    THEN Applied(TRUE, InvalidParamTypeError("methods", "Array", TypeOf(methods)), st)
    ELSE applyLoop(st, methods.list, 1)

\* st is TaskSchema.statics before the call; the `!methods` check follows the
\* Array.isArray check and is never reached with a falsy value
applyStaticMethods(st, schema, methods) ==
    IF methods.t # "array"
    THEN Applied(TRUE, InvalidParamTypeError("methods", "Array", TypeOf(methods)), st)
    ELSE IF schema = NoSchema
    THEN Applied(TRUE, MissingParamError("TaskSchema"), st)
    ELSE applyLoop(st, methods.list, 1)

NoApplied ==
    [op |-> "none", schema |-> NoSchema, methods |-> Methods("undefined", <<>>),
     pre |-> InitialStatics, out |-> Applied(FALSE, NoParamError, InitialStatics)]

\* a call of applyStaticMethods on the schema of the Task model
callApplyStaticMethods(schema, methods) ==
    /\ LET out == applyStaticMethods(statics, schema, methods)
       IN /\ statics' = out.statics
          /\ applied' = [op |-> "applyStaticMethods", schema |-> schema,
                         methods |-> methods, pre |-> statics, out |-> out]
    /\ UNCHANGED <<pvars, qvars, uvars>>

(***************************************************************************)
(* handleLogin(req, res, next) of auth/auth.js                             *)
(***************************************************************************)
\* bcrypt.hash(plainPassword, 10): a hash that bcrypt.compare ties to the password
hashPassword(plainPassword) == <<"bcrypt", plainPassword>>

\* bcrypt.compare(plainPassword, hashedPassword)
verifyPassword(plainPassword, hashedPassword) ==
    hashedPassword = hashPassword(plainPassword)

Emails == {"ann", "bob"}

Passwords == {"pw1", "pw2"}

UserDoc(id, email, password) == [id |-> id, email |-> email, password |-> password]

NoUser == UserDoc(0, "", <<>>)

UserId(email) == IF email = "ann" THEN 1 ELSE 2

\* the users a collection may hold: for each email none, or one with either password
UserCollections ==
    {{UserDoc(UserId(e), e, hashPassword(f[e])) : e \in {x \in Emails : f[x] # "none"}} :
        f \in [Emails -> Passwords \cup {"none"}]}

\* User.findOne({ email }): the user with that email, or null
findOne(coll, email) ==
    IF \E u \in coll : u.email = email
    THEN CHOOSE u \in coll : u.email = email
    ELSE NoUser

\* req.body: a value of some type; an object has the shape the user schema
\* asks for (valid) or not
Body(t, valid, email, password) ==
    [t |-> t, valid |-> valid, email |-> email, password |-> password]

NoBodyValue == Body("undefined", FALSE, "", "")

TypeOfBody(b) == IF b.t = "null" THEN "object" ELSE b.t

BodyInputs ==
    {NoBodyValue, Body("string", FALSE, "", ""), Body("null", FALSE, "", ""),
     Body("object", FALSE, "", "")}
        \cup {Body("object", TRUE, e, p) : e \in Emails \cup {"eve"}, p \in Passwords}

\* user.safeParse(userInput) of validators/userSchema
userRule(b) ==
    [success |-> b.t = "object" /\ b.valid, email |-> b.email, password |-> b.password]

\* buildPayload(userId)
buildPayload(userId) == [sub |-> userId]

\* createJWT(userId): jwt.sign(payload, secret, { expiresIn: '15m' })
createJWT(userId) == [payload |-> buildPayload(userId), expiresIn |-> "15m"]

NoToken == [payload |-> buildPayload(0), expiresIn |-> ""]

\* methods of the object the factory of operations/response returns
ResponseHelperMethods == {"json", "ok", "created", "noContent"}

\* require('../operations/response') is that factory, a function: the
\* properties of a function, none of them callable
ResponseExportMethods == {}

\* steps lists the collaborators handleLogin has called, in order
IdleLogin ==
    [pc |-> "idle", body |-> NoBodyValue, found |-> NoUser, nextCalls |-> 0,
     nextErr |-> NoErr, token |-> NoToken, sent |-> "none", steps |-> <<>>]

\* what an awaited collaborator does: it answers, or it fails unexpectedly
Answers == {"ok", "fails"}

\* process.env.SECRET_KEY is set or not; jwt.sign throws without a secret
SecretKeys == {"set", "unset"}

\* catch (err) { next(err) }
catchNext(l, err) == [l EXCEPT !.pc = "done", !.nextCalls = @ + 1, !.nextErr = err]

\* response.jwt({ res, token }): a call of a property the module does not
\* have throws a TypeError, which the catch hands to next
responseJwt(l, token) ==
    IF "jwt" \in ResponseExportMethods
    THEN [l EXCEPT !.pc = "done", !.token = token, !.sent = "jwt",
                   !.steps = Append(@, "response.jwt")]
    ELSE catchNext([l EXCEPT !.token = token],
                   Error("TypeError", "response.jwt is not a function", ""))

\* handleLogin looking the user up whatever the schema says of the body
handleLogin_noSchema(body) ==
    /\ login.pc = "idle"
    /\ LET l == [login EXCEPT !.body = body]
       IN login' =
            IF TypeOfBody(body) # "object"
            THEN catchNext(l, Error("InvalidParamTypeError", "userObject", TypeOfBody(body)))
            ELSE [l EXCEPT !.pc = "findOne", !.steps = <<"safeParse", "findOne">>]
    /\ UNCHANGED <<pvars, qvars, svars, users, filt, route>>

\* handleLogin up to `await User.findOne({ email })`
handleLogin(body) ==
    /\ login.pc = "idle"
    /\ LET l == [login EXCEPT !.body = body]
       IN login' =
            IF TypeOfBody(body) # "object"
            THEN catchNext(l, Error("InvalidParamTypeError", "userObject", TypeOfBody(body)))
            ELSE IF ~userRule(body).success
            THEN catchNext([l EXCEPT !.steps = <<"safeParse">>],
                           BadRequestError("Invalid user schema", ""))
            ELSE [l EXCEPT !.pc = "findOne", !.steps = <<"safeParse", "findOne">>]
    /\ UNCHANGED <<pvars, qvars, svars, users, filt, route>>

\* handleLogin from the answer of User.findOne to `await verifyPassword(..)`;
\* a rejected promise is thrown by the await and caught
handleLoginFound(answer) ==
    /\ login.pc = "findOne"
    /\ LET foundUser == findOne(users, userRule(login.body).email)
       IN login' =
            IF answer = "fails"
            THEN catchNext(login, Error("Error", "findOne failed", ""))
            ELSE IF foundUser = NoUser
            THEN catchNext(login, NotFoundError("User not found"))
            ELSE [login EXCEPT !.pc = "verify", !.found = foundUser,
                               !.steps = Append(@, "verifyPassword")]
    /\ UNCHANGED <<pvars, qvars, svars, users, filt, route>>

\* handleLogin from the answer of verifyPassword to its end
handleLoginVerified(answer, secret) ==
    /\ login.pc = "verify"
    /\ LET signing == [login EXCEPT !.steps = Append(@, "createJWT")]
       IN login' =
            IF answer = "fails"
            THEN catchNext(login, Error("Error", "compare failed", ""))
            ELSE IF ~verifyPassword(userRule(login.body).password, login.found.password)
            THEN catchNext(login, BadRequestError("Incorrect email or password", ""))
            ELSE IF secret = "unset"
            THEN catchNext(signing, Error("Error", "secretOrPrivateKey must have a value", ""))
            ELSE responseJwt(signing, createJWT(login.found.id))
    /\ UNCHANGED <<pvars, qvars, svars, users, filt, route>>

(***************************************************************************)
(* filterFields(fields)(object) of utils/controllerUtils.js                *)
(***************************************************************************)
FieldKeys == {"id", "name", "password"}

FieldVals == {1, 2}

EmptyObject == [k \in {} |-> 0]

\* objects: a value for some of the keys
Objects == UNION {[K -> FieldVals] : K \in SUBSET FieldKeys}

\* the fields argument: an array of keys, or a value of another type
FieldsArg(t, list) == [t |-> t, list |-> list]

\* the object argument: an object, or a value of another type
ObjectArg(t, obj) == [t |-> t, obj |-> obj]

Filtered(threw, err, value, same) ==
    [threw |-> threw, err |-> err, value |-> value, same |-> same]

\* same is TRUE when the value handed back is the object passed in
filterFields(fields, object) ==
    LET f == IF fields.t = "undefined" THEN FieldsArg("array", <<>>) ELSE fields
        o == IF object.t = "undefined" THEN ObjectArg("object", EmptyObject) ELSE object
    IN IF f.t # "array"
       THEN Filtered(TRUE, InvalidParamTypeError(f.t, "array", f.t), EmptyObject, FALSE)
       ELSE IF o.t # "object"
       THEN Filtered(TRUE,
                     InvalidParamTypeError(o.t, "object", IF o.t = "null" THEN "object" ELSE o.t),
                     EmptyObject, FALSE)
       ELSE IF Len(f.list) = 0
       THEN Filtered(FALSE, NoParamError, o.obj, object.t = "object")
       ELSE Filtered(FALSE, NoParamError,
                     [k \in {x \in DOMAIN o.obj : \E i \in 1 .. Len(f.list) : f.list[i] = x}
                         |-> o.obj[k]],
                     FALSE)

NoFiltered == Filtered(FALSE, NoParamError, EmptyObject, FALSE)

IdleFilter ==
    [pc |-> "none", fields |-> FieldsArg("undefined", <<>>),
     object |-> ObjectArg("undefined", EmptyObject), out |-> NoFiltered, again |-> NoFiltered]

\* filterFields(fields)(object)
callFilter ==
    /\ filt.pc = "ready"
    /\ filt' = [filt EXCEPT !.pc = "called", !.out = filterFields(filt.fields, filt.object)]
    /\ UNCHANGED <<pvars, qvars, svars, users, login, route>>

\* the same filter on what it handed back
callFilterAgain ==
    /\ filt.pc = "called"
    /\ ~filt.out.threw
    /\ filt' = [filt EXCEPT !.pc = "recalled",
                            !.again = filterFields(filt.fields,
                                                   ObjectArg("object", filt.out.value))]
    /\ UNCHANGED <<pvars, qvars, svars, users, login, route>>

(***************************************************************************)
(* controllerResolver(name, action, helpers)                               *)
(***************************************************************************)
\* a controller object: the typeof of each of its own members
Controller(members) == [t |-> "object", members |-> members]

\* inject returning nothing
NoController == [t |-> "undefined", members |-> [n \in {} |-> "undefined"]]

\* what require(controllerPath) gives; kind is "missing" when no file is there
Module(kind, inject, controller) ==
    [kind |-> kind, inject |-> inject, controller |-> controller]

\* the controller of controllers/example/example.js
ExampleController ==
    Controller([n \in {"getAll", "getById", "create", "update", "remove"} |-> "function"])

\* a controller that also has a member that is no function
VersionedController ==
    Controller([n \in {"getAll", "version"} |->
                    IF n = "version" THEN "string" ELSE "function"])

ModuleInputs ==
    {Module("missing", "undefined", NoController),
     Module("module", "undefined", NoController),
     Module("module", "string", NoController),
     Module("module", "function", NoController),
     Module("module", "function", ExampleController),
     Module("module", "function", VersionedController)}

ActionInputs == {"getAll", "remove", "version", "archive", "toString"}

\* typeof controller[action]: own members first, then Object.prototype
Member(controller, action) ==
    IF action \in DOMAIN controller.members THEN controller.members[action]
    ELSE IF action \in ObjectPrototypeKeys THEN "function"
    ELSE "undefined"

\* a value thrown or rejected with: an Error with a message, or a value
\* that is no error object
Thrown(t, msg) == [t |-> t, msg |-> msg]

\* what calling controller[action](req, res, next) comes to
ActionResult(kind, value) == [kind |-> kind, value |-> value]

Returns == ActionResult("returns", Thrown("undefined", ""))

ActionResults ==
    {Returns} \cup
    {ActionResult(kind, value) :
        kind \in {"throws", "rejects"},
        value \in {Thrown("Error", "boom"), Thrown("Error", "down"),
                   Thrown("string", ""), Thrown("undefined", ""), Thrown("null", "")}}

\* err.message
MessageOf(value) ==
    IF value.t = "Error" THEN [t |-> "string", s |-> value.msg]
    ELSE [t |-> "undefined", s |-> ""]

IdleRoute ==
    [pc |-> "idle", module |-> Module("missing", "undefined", NoController),
     action |-> "", err |-> NoErr, requests |-> 0, result |-> Returns,
     calls |-> <<>>, rejected |-> NoErr]

\* controllerResolver up to its return: the error it throws, or none
resolveError(module, action) ==
    IF module.kind = "missing"
    THEN Error("Error", "Cannot find module", "MODULE_NOT_FOUND")
    ELSE IF module.inject # "function"
    THEN Error("Error", "Controller must export an inject function", "")
    ELSE IF module.controller.t # "object"
    THEN Error("TypeError", "Cannot read properties of undefined", action)
    ELSE IF Member(module.controller, action) # "function"
    THEN Error("Error", "Controller does not have method", action)
    ELSE NoErr

controllerResolver(module, action) ==
    /\ route.pc = "idle"
    /\ route' = [route EXCEPT !.pc = IF resolveError(module, action) = NoErr
                                     THEN "resolved" ELSE "failed",
                              !.module = module, !.action = action,
                              !.err = resolveError(module, action)]
    /\ UNCHANGED <<pvars, qvars, svars, users, login, filt>>

\* the catch of the returned handler: helpers.error.throwServer(res,
\* err.message); reading message of undefined or null throws
catchThrowServer(rt, value) ==
    IF value.t \in {"undefined", "null"}
    THEN [rt EXCEPT !.pc = "settled",
                    !.rejected = Error("TypeError", "Cannot read properties (reading 'message')",
                                       value.t)]
    ELSE [rt EXCEPT !.pc = "settled", !.calls = Append(@, MessageOf(value))]

\* the returned handler called for a request, up to its await; what the
\* action throws at the call is caught at once, and what Object.prototype
\* holds returns
handler(result) ==
    /\ route.pc \in {"resolved", "settled"}
    /\ route.requests < MaxCalls
    /\ route.action \in DOMAIN route.module.controller.members \/ result = Returns
    /\ LET entered == [route EXCEPT !.pc = "awaiting", !.requests = @ + 1,
                                    !.result = result, !.calls = <<>>,
                                    !.rejected = NoErr]
       IN route' = IF result.kind = "throws"
                   THEN catchThrowServer(entered, result.value)
                   ELSE entered
    /\ UNCHANGED <<pvars, qvars, svars, users, login, filt>>

\* the returned handler after its await
handlerResume ==
    /\ route.pc = "awaiting"
    /\ route' = IF route.result.kind = "rejects"
                THEN catchThrowServer(route, route.result.value)
                ELSE [route EXCEPT !.pc = "settled"]
    /\ UNCHANGED <<pvars, qvars, svars, users, login, filt>>

(***************************************************************************)
(* Inputs                                                                  *)
(***************************************************************************)
LimitInputs ==
    {Undefined, Null, NaN, Num(0), Str(<<>>), Num(-1), Half(3), Num(1), Num(2),
     Num(LimitMax + 1), Str(<<"a">>)}

SearchInputs ==
    {Undefined, Str(<<>>), Num(5), Str(<<"a">>), Str(<<"a", ".">>)}

KeyArgs == {AbsentKey, Given("")} \cup {Given(k) : k \in Keys}

EntryInputs ==
    {NullEntry} \cup
    {Entry(name, fn) : name \in {Str(<<"a">>), Str(<<"b">>), Num(123)},
                       fn \in {Fn(1), Fn(2), Undefined}}

MethodsInputs ==
    {Methods(k, <<>>) : k \in {"undefined", "null", "string", "object"}}
        \cup {Methods("array", l) : l \in SeqsUpTo(EntryInputs, MaxMethods)}

(***************************************************************************)
(* Specifications                                                          *)
(***************************************************************************)
PipeInit ==
    /\ pipe = IdlePipe
    /\ res = FreshRes
    /\ log = <<>>
    /\ call = NoCall

QueryInitOn(docs) ==
    /\ store = docs
    /\ queries = [q \in QueryIds |-> NoQuery]
    /\ builders = [r \in Reqs |-> NoBuilder]
    /\ resp = [r \in Reqs |-> FreshResp]
    /\ tasks = <<>>
    /\ last = NoLast
    /\ lookup = IdleLookup

StaticsInitOn(st) ==
    /\ statics = st
    /\ applied = [NoApplied EXCEPT !.pre = st, !.out.statics = st]

StaticsInit == StaticsInitOn(InitialStatics)

\* no login and no filter under way
UtilInit ==
    /\ users = {}
    /\ login = IdleLogin
    /\ filt = IdleFilter
    /\ route = IdleRoute

Init == PipeInit /\ QueryInitOn(TaskStore) /\ StaticsInit /\ UtilInit

\* any collection of users
LoginInit ==
    /\ PipeInit
    /\ QueryInitOn(TaskStore)
    /\ StaticsInit
    /\ users \in UserCollections
    /\ login = IdleLogin
    /\ filt = IdleFilter
    /\ route = IdleRoute

FieldsInputs ==
    {FieldsArg("undefined", <<>>), FieldsArg("string", <<>>)}
        \cup {FieldsArg("array", l) : l \in SeqsUpTo(FieldKeys, MaxFields)}

ObjectInputs ==
    {ObjectArg("undefined", EmptyObject), ObjectArg("null", EmptyObject),
     ObjectArg("number", EmptyObject)}
        \cup {ObjectArg("object", o) : o \in Objects}

\* a filter of any fields about to be called on any object
FilterInit ==
    /\ PipeInit
    /\ QueryInitOn(TaskStore)
    /\ StaticsInit
    /\ users = {}
    /\ login = IdleLogin
    /\ \E f \in FieldsInputs, o \in ObjectInputs :
          filt = [IdleFilter EXCEPT !.pc = "ready", !.fields = f, !.object = o]
    /\ route = IdleRoute

\* the schema as the model defines it, or with a method a installed before
InstallerInit ==
    /\ PipeInit
    /\ QueryInitOn(TaskStore)
    /\ \E st \in {InitialStatics, [InitialStatics EXCEPT ![<<"a">>] = Fn(2)]} :
          StaticsInitOn(st)
    /\ UtilInit

\* a collection of one task whose description is any string of the alphabet
PrefixInit ==
    /\ PipeInit
    /\ \E x \in SeqsUpTo(Chars, MaxFieldLen) : QueryInitOn(<<Doc(1, x)>>)
    /\ StaticsInit
    /\ UtilInit

\* descriptions of the tasks of a collection
AlphaTask == <<"A", "l", "p", "h", "a", " ", "t", "a", "s", "k">>

AlphaBeta == <<"A", "l", "p", "h", "a", " ", "b", "e", "t", "a">>

BetaTask == <<"B", "e", "t", "a", " ", "t", "a", "s", "k">>

ChainDescriptions == {AlphaTask, AlphaBeta, BetaTask, <<"a", "l">>, <<"a", ".", "b">>}

\* search strings of a chained query
ChainSearch ==
    {<<"A", "l", "p", "h", "a">>, <<"a", "L">>, <<"b", "e", "t", "a">>, <<"a", ".">>,
     <<"t", "a", "s", "k">>}

\* the collection holding tasks with the descriptions of l, in that order
StoreOf(l) == [i \in 1 .. Len(l) |-> Doc(i, l[i])]

\* any collection of at most MaxDocs tasks
ChainInit ==
    /\ PipeInit
    /\ \E l \in SeqsUpTo(ChainDescriptions, MaxDocs) : QueryInitOn(StoreOf(l))
    /\ StaticsInit
    /\ UtilInit

PipeNext ==
    \/ \E d \in Values, s \in StatusArgs, ok \in SuccessArgs, cbs \in CallBackArgs :
          json(d, s, ok, cbs)
    \/ \E d \in Values, l \in StepLists : create(d, l)
    \/ createInvoke
    \/ createSettle
    \/ createTerminal

QueryNext ==
    \/ find
    \/ \E n \in LimitInputs : querySafeLimit(n)
    \/ \E s \in SearchInputs, k \in Keys : querySafeStartsWith(s, k)
    \/ exec
    \/ \E id \in IdInputs : safeFindById(id)
    \/ safeFindByIdResume

\* one request, with every input
BuilderNext ==
    \/ getAllTasks(1)
    \/ \E n \in LimitInputs : limit(1, n)
    \/ \E s \in SearchInputs, k \in KeyArgs : startsWith(1, s, k)
    \/ all(1)
    \/ \E i \in 1 .. Len(tasks) : resume(i)

\* what a handler can be given to wait for
DataPromises ==
    {Rejected(BadRequestError("Invalid ID format", "")),
     Resolved(Null, <<>>), Resolved(Num(0), <<>>),
     Resolved(ObjectValue, <<>>), Resolved(ObjectValue, <<Doc(1, <<"a", ".", "b">>)>>)}

\* calls made on the controller objects of request 1
HandlerCalls == builders[1].calls + resp[1].handled

\* one request whose builder is kept and used again, with getTaskById and
\* the handler itself on the same res, at most MaxCalls calls in all
HandlerNext ==
    \/ getAllTasks(1)
    \/ \E n \in {Num(-1), Num(1)} : HandlerCalls < MaxCalls /\ limit(1, n)
    \/ HandlerCalls < MaxCalls /\ all(1)
    \/ \E id \in {ObjectId(1), ObjectId(4), Malformed} :
          HandlerCalls < MaxCalls /\ where(1, id)
    \/ \E dataPromise \in DataPromises :
          HandlerCalls < MaxCalls /\ handleTaskReturn(1, dataPromise)
    \/ \E i \in 1 .. Len(tasks) : resume(i)

\* calls made on the builders of all requests together
TotalCalls == builders[1].calls + builders[2].calls

\* two requests whose builder calls and suspended functions interleave in
\* any order, at most MaxCalls calls in all
TwoNext ==
    \/ \E r \in Reqs : getAllTasks(r)
    \/ \E r \in Reqs, n \in {Num(1), Num(2), Half(3)} :
          TotalCalls < MaxCalls /\ limit(r, n)
    \/ \E r \in Reqs :
          TotalCalls < MaxCalls /\ startsWith(r, Str(<<"a", ".">>), AbsentKey)
    \/ \E r \in Reqs : TotalCalls < MaxCalls /\ all(r)
    \/ \E i \in 1 .. Len(tasks) : resume(i)

\* every search string of the alphabet as the one prefix filter of a fresh
\* query on description
PrefixNext ==
    \/ find
    \/ \E s \in SeqsUpTo(Chars, MaxSearchLen) :
          /\ queries[Direct].conds["description"] = NoPattern
          /\ querySafeStartsWith(Str(s), "description")

\* find({}) with one valid prefix filter on description and one valid limit,
\* in either order, and one exec
ChainNext ==
    \/ find
    \/ \E s \in ChainSearch :
          /\ queries[Direct].conds["description"] = NoPattern
          /\ queries[Direct].execs = 0
          /\ querySafeStartsWith(Str(s), "description")
    \/ \E n \in 1 .. LimitMax :
          /\ queries[Direct].lim = 0
          /\ queries[Direct].execs = 0
          /\ querySafeLimit(Num(n))
    \/ queries[Direct].execs = 0 /\ exec

LoginNext ==
    \/ \E body \in BodyInputs : handleLogin(body)
    \/ \E answer \in Answers : handleLoginFound(answer)
    \/ \E answer \in Answers, secret \in SecretKeys : handleLoginVerified(answer, secret)

FilterNext ==
    \/ callFilter
    \/ callFilterAgain

RouteNext ==
    \/ \E module \in ModuleInputs, action \in ActionInputs :
          controllerResolver(module, action)
    \/ \E result \in ActionResults : handler(result)
    \/ handlerResume

StaticsNext ==
    \E schema \in {NoSchema, TaskSchema}, methods \in MethodsInputs :
        callApplyStaticMethods(schema, methods)

\* one call on the schema
InstallerNext ==
    \E schema \in {NoSchema, TaskSchema}, methods \in MethodsInputs :
        /\ applied.op = "none"
        /\ callApplyStaticMethods(schema, methods)

SpecPipe == Init /\ [][PipeNext]_vars

SpecStatics == InstallerInit /\ [][InstallerNext]_vars

SpecPrefix == PrefixInit /\ [][PrefixNext]_vars

SpecQuery == Init /\ [][QueryNext]_vars

SpecChain == ChainInit /\ [][ChainNext]_vars

SpecBuilder == Init /\ [][BuilderNext]_vars

SpecTwo == Init /\ [][TwoNext]_vars

SpecHandler == Init /\ [][HandlerNext]_vars

SpecLogin == LoginInit /\ [][LoginNext]_vars

SpecFilter == FilterInit /\ [][FilterNext]_vars

SpecRoute == Init /\ [][RouteNext]_vars

Next ==
    \/ PipeNext
    \/ QueryNext
    \/ ChainNext
    \/ BuilderNext
    \/ TwoNext
    \/ HandlerNext
    \/ StaticsNext
    \/ LoginNext
    \/ FilterNext
    \/ RouteNext

Spec == Init /\ [][Next]_vars

(***************************************************************************)
(* Properties of the pipeline (checked under SpecPipe)                     *)
(***************************************************************************)
EventsOf(kind) == SelectSeq(log, LAMBDA e : e.ev = kind)

\* the step list the caller passed (pipeCallBacks of json, runLast of create)
CallerSteps == call.cbs.list

PipelineRan == call.op = "create" \/ (call.op = "json" /\ HasCallBacks(call.cbs))

\* C1: the steps of the caller's list are invoked in list order, each once,
\* step k on the output of step k-1 (the initial value for k = 1), never before
\* step k-1 has completed, and the terminal consumer receives fn(...f1(v)).
C1_StepsInOrder ==
    LET calls == EventsOf("call")
        terms == EventsOf("terminal")
        n == Len(CallerSteps)
    IN PipelineRan =>
        /\ Len(calls) <= n
        /\ \A k \in 1 .. Len(calls) :
              /\ calls[k].idx = k
              /\ calls[k].fn = CallerSteps[k]
              /\ calls[k].val = Fold(CallerSteps, call.data, k - 1)
        /\ \A j \in 1 .. Len(log) :
              (log[j].ev = "call" /\ log[j].idx > 1) =>
                  /\ j > 1
                  /\ log[j - 1].ev = "done"
                  /\ log[j - 1].idx = log[j].idx - 1
                  /\ log[j - 1].val = log[j].val
        /\ \A j \in 1 .. Len(log) :
              log[j].ev = "done" =>
                  /\ log[j].val = Fold(CallerSteps, call.data, log[j].idx)
                  /\ \E h \in 1 .. (j - 1) :
                        log[h].ev = "call" /\ log[h].idx = log[j].idx
        /\ pipe.pc = "fulfilled" =>
              /\ Len(calls) = n
              /\ Len(terms) = 1
              /\ terms[1].val = Fold(CallerSteps, call.data, n)
              /\ call.op = "json" => res.body.value = Fold(CallerSteps, call.data, n)

\* a json pipeline of two different, non-commuting steps, one of them
\* asynchronous, has run to the end
C1_Witness ==
    /\ call.op = "json"
    /\ pipe.pc = "fulfilled"
    /\ Len(CallerSteps) = 2
    /\ CallerSteps[1] = "asyncInc"
    /\ CallerSteps[2] = "dbl"
    /\ Fold(CallerSteps, call.data, 2) # Fold(Reverse(CallerSteps), call.data, 2)

\* C2: once step k has failed no later step and no terminal consumer is
\* invoked, nothing is sent, and the caller's promise is rejected with the
\* failure of that very step.
C2_ShortCircuit ==
    /\ \A j \in 1 .. Len(log) :
          log[j].ev = "fail" =>
              /\ j = Len(log)
              /\ StepFails(CallerSteps[log[j].idx])
              /\ log[j].fn = CallerSteps[log[j].idx]
              /\ \A h \in 1 .. Len(log) :
                    /\ log[h].ev # "terminal"
                    /\ log[h].ev = "call" => log[h].idx <= log[j].idx
              /\ pipe.pc = "rejected"
              /\ pipe.err = StepError(log[j].fn, log[j].val)
              /\ pipe.ret = NoValue
              /\ res.jsonCalls = 0
    /\ pipe.pc = "rejected" => Len(EventsOf("fail")) = 1
    /\ \A j \in 1 .. Len(log) :
          (log[j].ev = "call" /\ StepFails(log[j].fn)) =>
              \/ pipe.pc = "await" /\ j = Len(log)
              \/ j < Len(log) /\ log[j + 1].ev = "fail"

\* the first of two steps of a json pipeline has failed
C2_Witness ==
    /\ call.op = "json"
    /\ pipe.pc = "rejected"
    /\ Len(CallerSteps) = 2
    /\ pipe.i = 1
    /\ pipe.err.kind = "StepError"

\* C3: the terminal consumer runs once when all steps succeed and never
\* otherwise, only after the last step has completed, and create resolves to
\* what the terminal consumer returned (for json: the response it sent on).
C3_TerminalOnce ==
    LET terms == EventsOf("terminal")
        n == Len(CallerSteps)
    IN PipelineRan =>
        /\ Len(terms) <= 1
        /\ (pipe.pc = "fulfilled") <=> (Len(terms) = 1)
        /\ Len(terms) = 1 =>
              /\ log[Len(log)].ev = "terminal"
              /\ Len(EventsOf("done")) = n
              /\ Len(EventsOf("fail")) = 0
              /\ n > 0 => /\ log[Len(log) - 1].ev = "done"
                          /\ log[Len(log) - 1].idx = n
        /\ Len(terms) = 0 => pipe.ret = NoValue
        /\ call.op = "json" =>
              /\ res.jsonCalls = Len(terms)
              /\ pipe.pc = "fulfilled" => pipe.ret = ResValue
        /\ call.op = "create" =>
              /\ res.jsonCalls = 0
              /\ pipe.pc = "fulfilled" => pipe.ret = PlainValue(terms[1].val)

\* a json pipeline whose last step was awaited has sent its response
C3_Witness ==
    /\ call.op = "json"
    /\ pipe.pc = "fulfilled"
    /\ Len(CallerSteps) = 2
    /\ CallerSteps[2] = "asyncInc"
    /\ res.jsonCalls = 1

\* C4: a pipeline of zero steps hands the initial value to the terminal
\* consumer; json without callbacks (empty, null or left out) sends the data
\* as it is, once, with the status code and success flag given (200 and true
\* when left out).
C4_EmptyIdentity ==
    /\ (call.op = "json" /\ ~HasCallBacks(call.cbs)) =>
          /\ res.jsonCalls = 1
          /\ res.statusCode = Default(call.statusArg, 200)
          /\ res.body = [success |-> Default(call.successArg, TRUE), key |-> "data",
                         value |-> call.data,
                         statusCode |-> Default(call.statusArg, 200)]
          /\ pipe = IdlePipe
          /\ log = <<>>
    /\ (call.op = "create" /\ CallerSteps = <<>>) =>
          /\ pipe.pc \in {"terminal", "fulfilled"}
          /\ pipe.acc = call.data
          /\ pipe.pc = "fulfilled" =>
                /\ log = <<Event("terminal", 0, "ident", call.data)>>
                /\ pipe.ret = PlainValue(call.data)

\* json was called with an empty callback array and a status code of its own
C4_Witness ==
    /\ call.op = "json"
    /\ call.cbs = [kind |-> "array", list |-> <<>>]
    /\ call.statusArg = Given(201)
    /\ call.data = 2
    /\ res.jsonCalls = 1

(***************************************************************************)
(* Properties of the query helpers (SpecQuery, SpecPrefix, SpecBuilder)    *)
(***************************************************************************)
\* C5: safeLimit(n) returns the query untouched, without validating, when n
\* is falsy; throws BadRequest without calling limit when the rule rejects n
\* (-1 and 1.5 among them); otherwise returns the query with limit(d) applied
\* for the parsed d, and the executed query yields at most d documents.
C5_SafeLimit ==
    /\ last.op = "safeLimit" =>
          LET n == last.arg
              out == last.out
              rule == limitRule(n)
          IN /\ Falsy(n) =>
                    /\ last.ret = "query"
                    /\ ~out.parsed /\ ~out.limitCalled
                    /\ queries[Direct] = last.pre
             /\ (~Falsy(n) /\ ~rule.success) =>
                    /\ last.ret = "throw"
                    /\ out.err.kind = "BadRequestError"
                    /\ ~out.limitCalled
                    /\ queries[Direct] = last.pre
             /\ (~Falsy(n) /\ rule.success) =>
                    /\ last.ret = "query"
                    /\ out.limitCalled
                    /\ queries[Direct] = queryLimit(last.pre, rule.data)
                    /\ Len(queryExec(store, queries[Direct])) <= rule.data
             /\ n \in {Num(-1), Half(3)} => last.ret = "throw"
             /\ n \in {Undefined, Num(0)} => queries[Direct].lim = last.pre.lim
    /\ last.op = "exec" =>
          /\ last.pre.lim # 0 => Len(last.result) <= last.pre.lim
          /\ last.pre.lim = 0 =>
                last.result = SelectSeq(store, LAMBDA d : DocMatches(d, last.pre))

\* a query limited to 2 by safeLimit was executed on three matching tasks
C5_Witness ==
    /\ last.op = "exec"
    /\ last.pre.lim = 2
    /\ Len(last.result) = 2
    /\ Len(SelectSeq(store, LAMBDA d : DocMatches(d, last.pre))) = 3

\* C6: safeStartsWith checks in order: falsy searchParam returns the query;
\* a searchParam the string rule rejects throws 'Invalid searchParam' whatever
\* the key; a key that is no declared path of the schema throws BadRequest
\* naming the key; only otherwise is where(key, pattern) applied.
C6_StartsWithOrder ==
    last.op = "safeStartsWith" =>
        LET sp == last.arg
            key == last.key.v
            out == last.out
            rule == searchParamRule(sp)
        IN /\ Falsy(sp) =>
                  /\ last.ret = "query"
                  /\ ~out.parsed /\ ~out.whereCalled
                  /\ queries[Direct] = last.pre
           /\ (~Falsy(sp) /\ ~rule.success) =>
                  /\ last.ret = "throw"
                  /\ out.err = BadRequestError("Invalid searchParam", "")
                  /\ ~out.whereCalled
           /\ (~Falsy(sp) /\ rule.success /\ key \notin SchemaPaths) =>
                  /\ last.ret = "throw"
                  /\ out.err.kind = "BadRequestError"
                  /\ out.err.key = key
                  /\ ~out.whereCalled
           /\ out.whereCalled =>
                  /\ ~Falsy(sp) /\ rule.success /\ key \in SchemaPaths
                  /\ last.ret = "query"
                  /\ queries[Direct] = queryWhere(last.pre, key, startsWithSource(rule.data))

\* C7: the filter safeStartsWith installs for a validated search string s
\* matches a field value x exactly when x begins with the characters of s,
\* compared without regard to case.
C7_LiteralPrefix ==
    (last.op = "safeStartsWith" /\ last.out.whereCalled) =>
        \A i \in 1 .. Len(store) :
            LET x == store[i].description
                s == last.arg.s
            IN /\ RegExpTest(queries[Direct].conds["description"], TRUE, x)
                      = (IF StartsWithIgnoreCase(x, s) THEN "match" ELSE "nomatch")
               /\ DocMatches(store[i], queries[Direct]) <=> StartsWithIgnoreCase(x, s)

\* the filter for "a." was applied to a value where the dot read as a
\* wildcard would match
C7_Witness ==
    /\ last.op = "safeStartsWith"
    /\ last.out.whereCalled
    /\ last.arg = Str(<<"a", ".">>)
    /\ store = <<Doc(1, <<"A", "b">>)>>

\* C8: safeFindById fails with BadRequest without any lookup when the id is
\* malformed, fails with NotFound when the id is well formed and no task has
\* it, and otherwise resolves to the task with that id, never to null.
C8_SafeFindById ==
    lookup.pc # "idle" =>
        LET present == \E i \in 1 .. Len(store) : store[i].id = lookup.id.k
        IN /\ ~isValid(lookup.id) =>
                  /\ lookup.pc = "rejected"
                  /\ lookup.err.kind = "BadRequestError"
                  /\ lookup.findCalls = 0
           /\ isValid(lookup.id) => lookup.findCalls = 1
           /\ (isValid(lookup.id) /\ ~present) =>
                  /\ lookup.pc \in {"pending", "rejected"}
                  /\ lookup.pc = "rejected" => lookup.err.kind = "NotFoundError"
           /\ (isValid(lookup.id) /\ present) =>
                  /\ lookup.pc \in {"pending", "fulfilled"}
           /\ lookup.pc = "fulfilled" =>
                  /\ lookup.doc # NoDoc
                  /\ lookup.doc.id = lookup.id.k
                  /\ \E i \in 1 .. Len(store) : store[i] = lookup.doc

\* a well-formed id that no task has was looked up once and not found
C8_Witness ==
    /\ lookup.pc = "rejected"
    /\ lookup.id = ObjectId(4)
    /\ lookup.err = NotFoundError("Task not found")
    /\ lookup.findCalls = 1

\* C9: when safeLimit or safeStartsWith fails inside the builder, the query
\* keeps the conditions and limit it had, neither limit nor where was called,
\* and the builder still holds the query it held.
C9_FailureLeavesQuery ==
    (last.op \in {"limit", "startsWith"} /\ last.out.threw) =>
        /\ queries[last.preRef] = last.pre
        /\ ~last.out.limitCalled
        /\ ~last.out.whereCalled
        /\ builders[last.q].query = last.preRef
        /\ last.ret = "promise"

\* a builder whose query already carries a filter and a limit was given an
\* invalid limit
C9_Witness ==
    /\ last.op = "limit"
    /\ last.out.threw
    /\ last.arg = Half(3)
    /\ last.pre.lim = 2
    /\ last.pre.conds["description"] # NoPattern

(***************************************************************************)
(* Properties of applyStaticMethods (SpecStatics)                          *)
(***************************************************************************)
\* an entry the loop installs: an object with a string name and a callable fn
ValidEntry(e) ==
    e.t = "object" /\ TypeOf(e.name) = "string" /\ TypeOf(e.fn) = "function"

\* index of the first invalid entry, Len(list) + 1 when there is none
FirstInvalid(list) ==
    IF \E i \in 1 .. Len(list) : ~ValidEntry(list[i])
    THEN CHOOSE i \in 1 .. Len(list) :
             ~ValidEntry(list[i]) /\ \A j \in 1 .. (i - 1) : ValidEntry(list[j])
    ELSE Len(list) + 1

\* C10: applyStaticMethods goes through the entries in list order and throws
\* at the first invalid one: the valid entries before it are installed and
\* stay, that entry and the later ones are not installed; for
\* [{a, fn}, {123, fn}] a is installed and the error names the string
\* constraint.
C10_AbortAtFirstInvalid ==
    (applied.op = "applyStaticMethods" /\ applied.methods.t = "array"
        /\ applied.schema = TaskSchema) =>
        LET list == applied.methods.list
            k == FirstInvalid(list)
        IN /\ applied.out.threw <=> k <= Len(list)
           /\ \A nm \in StaticNames :
                 LET before == {j \in 1 .. (k - 1) : list[j].name.s = nm}
                 IN statics[nm] =
                       IF before = {} THEN applied.pre[nm]
                       ELSE list[CHOOSE j \in before : \A h \in before : h <= j].fn
           /\ list = <<Entry(Str(<<"a">>), Fn(1)), Entry(Num(123), Fn(1))>> =>
                 /\ statics[<<"a">>] = Fn(1)
                 /\ applied.out.err = InvalidParamTypeError("method", "string", "number")

\* the list [{a, fn}, {123, fn}, {b, fn}] was applied to a schema without a
\* and b: a is installed, b is not
C10_Witness ==
    /\ applied.op = "applyStaticMethods"
    /\ applied.schema = TaskSchema
    /\ applied.methods =
          Methods("array", <<Entry(Str(<<"a">>), Fn(1)), Entry(Num(123), Fn(1)),
                             Entry(Str(<<"b">>), Fn(2))>>)
    /\ applied.pre = InitialStatics
    /\ applied.out.threw
    /\ statics[<<"a">>] = Fn(1)
    /\ statics[<<"b">>] = Undefined

\* C11: a present methods value that is not an array fails with
\* InvalidParamTypeError for 'methods'; a missing schema with an array of
\* methods fails with MissingParamError for 'TaskSchema'; either way the
\* statics of the schema are what they were before the call
C11_ArgumentErrors ==
    applied.op = "applyStaticMethods" =>
        /\ applied.methods.t \notin {"array", "undefined", "null"} =>
              /\ applied.out.threw
              /\ applied.out.err =
                    InvalidParamTypeError("methods", "Array", applied.methods.t)
              /\ statics = applied.pre
        /\ (applied.methods.t = "array" /\ applied.schema = NoSchema) =>
              /\ applied.out.threw
              /\ applied.out.err = MissingParamError("TaskSchema")
              /\ statics = applied.pre

\* a call without a schema whose list starts with an entry that would install
C11_Witness ==
    /\ applied.op = "applyStaticMethods"
    /\ applied.schema = NoSchema
    /\ applied.methods.t = "array"
    /\ Len(applied.methods.list) >= 1
    /\ ValidEntry(applied.methods.list[1])
    /\ applied.out.err = MissingParamError("TaskSchema")

\* C12: a call whose methods argument is undefined or null fails with
\* MissingParamError for 'methods'
C12_MissingMethods ==
    (applied.op = "applyStaticMethods" /\ applied.methods.t \in {"undefined", "null"}) =>
        /\ applied.out.threw
        /\ applied.out.err = MissingParamError("methods")

(***************************************************************************)
(* How the helpers hand their errors to the caller (SpecQuery)             *)
(***************************************************************************)
\* C13: a validation error of safeLimit, safeStartsWith or safeFindById is
\* thrown at the call, before the call returns a value
C13_SynchronousErrors ==
    /\ (last.op \in {"safeLimit", "safeStartsWith"} /\ last.out.err # NoErr) =>
          last.ret = "throw"
    /\ (lookup.pc = "rejected" /\ lookup.err = BadRequestError("Invalid ID format", "")) =>
          lookup.ret = "throw"

(***************************************************************************)
(* The builder and the store (SpecBuilder)                                 *)
(***************************************************************************)
\* C14: a limit or startsWith call on a builder leaves the number of exec()
\* invocations on its query as it was, and an all() call adds exactly one
C14_ExecOnlyByAll ==
    /\ last.op \in {"limit", "startsWith"} =>
          queries[last.preRef].execs = last.pre.execs
    /\ last.op = "all" => queries[last.preRef].execs = last.pre.execs + 1

\* a second all() on a builder that was filtered and limited before
C14_Witness ==
    /\ last.op = "all"
    /\ last.pre.execs = 1
    /\ last.pre.lim = 1
    /\ queries[last.preRef].execs = 2

\* C15: a limit or startsWith call that passes validation or is a no-op
\* returns the builder; a call that fails validation returns the promise of
\* the handler instead, leaves the query as it was without running it, and,
\* while the response of the request is not sent, has handed its error to the
\* handler
C15_ChainStates ==
    last.op \in {"limit", "startsWith"} =>
        IF last.out.threw
        THEN /\ last.ret = "promise"
             /\ queries[last.preRef] = last.pre
             /\ ~resp[last.q].headersSent =>
                   /\ Len(tasks) >= 1
                   /\ tasks[Len(tasks)] = Task(last.q, "rejected", last.out.err, <<>>)
        ELSE /\ last.ret = "builder"
             /\ builders[last.q].query = last.preRef
             /\ queries[last.preRef] = last.out.query

\* a startsWith on an unknown field, after a limit was set on the builder
C15_Witness ==
    /\ last.op = "startsWith"
    /\ last.out.threw
    /\ last.out.err = BadRequestError("No Property found", "title")
    /\ last.pre.lim = 2
    /\ last.ret = "promise"
    /\ Len(tasks) = 1
    /\ tasks[1].stage = "rejected"

(***************************************************************************)
(* A prefix filter chained with a limit (SpecChain)                        *)
(***************************************************************************)
\* the tasks of the collection whose description starts with s
PrefixMatches(s) ==
    {i \in 1 .. Len(store) : StartsWithIgnoreCase(store[i].description, s)}

Min(a, b) == IF a <= b THEN a ELSE b

\* C16: exec on a query holding the prefix filter of s on description and the
\* limit n, set in either order, yields min(n, m) tasks of the collection,
\* m being the number of tasks whose description starts with s, and each task
\* it yields has that prefix
C16_PrefixThenLimit ==
    \A s \in ChainSearch, n \in 1 .. LimitMax :
        (/\ last.op = "exec"
         /\ last.pre.conds["description"] = startsWithSource(s)
         /\ last.pre.lim = n) =>
            /\ Len(last.result) = Min(n, Cardinality(PrefixMatches(s)))
            /\ \A i \in 1 .. Len(last.result) :
                  /\ StartsWithIgnoreCase(last.result[i].description, s)
                  /\ \E j \in 1 .. Len(store) : store[j] = last.result[i]

\* 'Alpha task', 'Alpha beta', 'Beta task' searched for 'Alpha' with limit 1
C16_Witness ==
    /\ store = StoreOf(<<AlphaTask, AlphaBeta, BetaTask>>)
    /\ last.op = "exec"
    /\ last.pre.conds["description"] = startsWithSource(<<"A", "l", "p", "h", "a">>)
    /\ last.pre.lim = 1
    /\ Len(last.result) = 1
    /\ StartsWithIgnoreCase(last.result[1].description, <<"A", "l", "p", "h", "a">>)

(***************************************************************************)
(* Two requests at once (SpecTwo)                                          *)
(***************************************************************************)
\* the suspended functions of request r, in their order
TasksOf(ts, r) == SelectSeq(ts, LAMBDA t : t.r = r)

\* a step leaves the query, builder, response and suspended functions of
\* request r as they are
Untouched(r) ==
    /\ queries'[r] = queries[r]
    /\ builders'[r] = builders[r]
    /\ resp'[r] = resp[r]
    /\ TasksOf(tasks', r) = TasksOf(tasks, r)

\* the step is all() of request r going on after its await
ExecResumes(r) ==
    /\ last'.op = "resume"
    /\ last'.q = r
    /\ last'.ret = "exec"
    /\ ~resp[r].headersSent

\* C17: every builder works on the query of its own request; a call on the
\* builder of one request, or a suspended function of it going on, leaves
\* the query, the builder, the response and the pending work of every other
\* request as they are; and what all() hands on for a request is the result of
\* the query of that request
C17_NoSharedState ==
    /\ [](\A r \in Reqs : builders[r].made => builders[r].query = r)
    /\ [][\A r \in Reqs :
              /\ last'.q # r => Untouched(r)
              /\ ExecResumes(r) =>
                    tasks'[Len(tasks')] =
                        Task(r, "fulfilled", NoErr, queryExec(store, queries[r]))]_vars

\* both requests are answered, the first with the one task of its limit and
\* the second with every task
C17_Witness ==
    /\ queries[1].lim = 1
    /\ queries[2].lim = 0
    /\ resp[1].kind = "ok"
    /\ resp[2].kind = "ok"
    /\ Len(resp[1].data) = 1
    /\ Len(resp[2].data) = Len(store)

(***************************************************************************)
(* The body response.json sends (SpecPipe)                                 *)
(***************************************************************************)
\* C18: the body json sends holds success, data and statusCode, with or
\* without callbacks; data is the value the callbacks produce from the input
\* in sequence, or the input when there are none
C18_BodyShape ==
    (call.op = "json" /\ res.jsonCalls > 0) =>
        res.body = [success |-> call.success, key |-> "data",
                    value |-> IF HasCallBacks(call.cbs)
                              THEN Fold(call.cbs.list, call.data, Len(call.cbs.list))
                              ELSE call.data,
                    statusCode |-> call.statusCode]

(***************************************************************************)
(* Login (SpecLogin)                                                       *)
(***************************************************************************)
\* the login has ended for a body that passes the user schema, names a user
\* of the collection and carries that user's password, and no collaborator
\* failed unexpectedly
LoginSucceeds ==
    /\ login.pc = "done"
    /\ login.nextErr.kind # "Error"
    /\ userRule(login.body).success
    /\ login.found # NoUser
    /\ verifyPassword(userRule(login.body).password, login.found.password)

FieldSet(list) == {list[i] : i \in 1 .. Len(list)}

\* C20: for an array of fields, the empty one included, and an object, the
\* filter hands back an object whose keys are the keys of the object that are
\* among the fields, each with the value it has in the object; the filter
\* applied to that gives the same again
C20_FilterKeepsFields ==
    (filt.pc \in {"called", "recalled"} /\ filt.fields.t = "array"
        /\ filt.object.t = "object") =>
        /\ ~filt.out.threw
        /\ DOMAIN filt.out.value = DOMAIN filt.object.obj \cap FieldSet(filt.fields.list)
        /\ \A k \in DOMAIN filt.out.value : filt.out.value[k] = filt.object.obj[k]
        /\ filt.pc = "recalled" => filt.again.value = filt.out.value

\* the collaborators of handleLogin in the order of its code
LoginOrder == <<"safeParse", "findOne", "verifyPassword", "createJWT", "response.jwt">>

Called(step) == \E i \in 1 .. Len(login.steps) : login.steps[i] = step

CallsMade(r) ==
    SubSeq(resp'[r].calls, Len(resp[r].calls) + 1, Len(resp'[r].calls))

\* the helper calls the handler owes the settled promise it waited for
HandlerOutcome(rs, task) ==
    CASE task.stage = "rejected" -> <<HelperCall("throwCustom", task.err, <<>>)>>
      [] task.stage # "rejected" /\ Falsy(task.val) ->
           <<HelperCall("throwNotFound", NoErr, <<>>)>>
      [] task.stage # "rejected" /\ ~Falsy(task.val) /\ rs.headersSent ->
           <<HelperCall("ok", NoErr, task.data),
             HelperCall("throwCustom", HeadersSentError, <<>>)>>
      [] OTHER -> <<HelperCall("ok", NoErr, task.data)>>

\* C22: a call of the handler on a response whose headers are sent does
\* nothing and waits for nothing; otherwise the call itself sends nothing and
\* waits for dataPromise, and once that settles the handler makes exactly the
\* helper call of the outcome: throwCustom with the error of a rejection,
\* throwNotFound for a falsy value, response.ok with the data for a truthy
\* value, the empty list included, followed by throwCustom only when
\* response.ok threw
C22_OneOutcome ==
    [][/\ \A i \in 1 .. Len(tasks) :
             ( /\ last'.op = "resume"
               /\ last'.ret = tasks[i].stage
               /\ last'.q = tasks[i].r
               /\ tasks[i].stage # "exec"
               /\ tasks' = Remove(tasks, i) ) =>
                   /\ Len(resp'[tasks[i].r].calls) >= Len(resp[tasks[i].r].calls)
                   /\ resp[tasks[i].r].calls =
                         SubSeq(resp'[tasks[i].r].calls, 1, Len(resp[tasks[i].r].calls))
                   /\ CallsMade(tasks[i].r) = HandlerOutcome(resp[tasks[i].r], tasks[i])
       /\ last'.op \in {"handleTaskReturn", "where"} =>
             /\ resp'[last'.q].calls = resp[last'.q].calls
             /\ resp'[last'.q].sends = resp[last'.q].sends
             /\ resp[last'.q].headersSent => tasks' = tasks
             /\ ~resp[last'.q].headersSent =>
                   /\ Len(tasks') = Len(tasks) + 1
                   /\ SubSeq(tasks', 1, Len(tasks)) = tasks
                   /\ tasks'[Len(tasks')].r = last'.q
                   /\ tasks'[Len(tasks')].stage \in {"rejected", "fulfilled"}
      ]_vars

\* a handler given a promise of the empty list answered 200 with it, and a
\* later handler on the same response did nothing
C22_Witness ==
    /\ resp[1].calls = <<HelperCall("ok", NoErr, <<>>)>>
    /\ resp[1].statusCode = 200
    /\ resp[1].handled >= 2
    /\ tasks = <<>>
    /\ last.op = "handleTaskReturn"

\* C23: on the response of a request the handlers make at most one sending
\* helper call (response.ok, throwNotFound or throwCustom), whatever calls
\* are made on the controller objects of the request and in whatever order
\* the suspended handlers go on
C23_AtMostOneSend ==
    \A r \in Reqs :
        /\ Len(resp[r].calls) <= 1
        /\ ~resp[r].lateSend

\* the module exports an inject function
HasInject(module) == module.kind = "module" /\ module.inject = "function"

\* the injected controller has a function named action
HasAction(module, action) ==
    /\ module.controller.t = "object"
    /\ Member(module.controller, action) = "function"

\* C24: controllerResolver fails, before any request, exactly when the module
\* has no inject function or the injected controller has no function named
\* action; a request whose action threw or rejected ends with one call of
\* throwServer with the message of the error and nothing passed on to the
\* caller of the handler, and a request whose action succeeded ends with no
\* call of throwServer
C24_ResolverWrapsAction ==
    /\ route.pc # "idle" =>
          (route.pc = "failed" <=>
              ~(HasInject(route.module) /\ HasAction(route.module, route.action)))
    /\ route.pc = "failed" => (route.requests = 0 /\ route.err # NoErr)
    /\ route.pc = "settled" =>
          /\ route.rejected = NoErr
          /\ route.calls = IF route.result.kind = "returns"
                           THEN <<>>
                           ELSE <<MessageOf(route.result.value)>>

\* the entries the loop takes: those up to the first invalid one, at which
\* the call ends
Taken(list) ==
    {i \in 1 .. Len(list) : i <= FirstInvalid(list)}

\* the entries taken that name nm and are installed
InstalledAs(list, nm) ==
    {i \in Taken(list) : ValidEntry(list[i]) /\ list[i].name.s = nm}

\* C25: of the entries applyStaticMethods takes, those with a string name and
\* a callable fn are installed under their name and no other is: after the
\* call, failed or not, every name whose value the call changed holds a
\* function, the fn of the last valid entry taken with that name, and every
\* other name holds what it held before; an entry with only its name invalid
\* raises the error expecting 'string', one with only its fn invalid the
\* error expecting 'function', and the error expecting
\* '{fn: function, name: string}' is raised exactly when both are invalid
C25_InstalledIffValid ==
    (applied.op = "applyStaticMethods" /\ applied.methods.t = "array"
        /\ applied.schema = TaskSchema) =>
        LET list == applied.methods.list
            k == FirstInvalid(list)
        IN /\ \A nm \in StaticNames :
                 /\ InstalledAs(list, nm) # {} =>
                       /\ \E i \in InstalledAs(list, nm) :
                             /\ \A j \in InstalledAs(list, nm) : j <= i
                             /\ statics[nm] = list[i].fn
                       /\ TypeOf(statics[nm]) = "function"
                 /\ InstalledAs(list, nm) = {} => statics[nm] = applied.pre[nm]
                 /\ statics[nm] # applied.pre[nm] => TypeOf(statics[nm]) = "function"
           /\ \A i \in Taken(list) :
                 ~ValidEntry(list[i]) =>
                     /\ applied.out.threw
                     /\ list[i].t = "object" =>
                           /\ applied.out.err.kind = "InvalidParamTypeError"
                           /\ applied.out.err.param = "method"
                           /\ (TypeOf(list[i].name) # "string"
                                  /\ TypeOf(list[i].fn) = "function") =>
                                 applied.out.err.expected = "string"
                           /\ (TypeOf(list[i].name) = "string"
                                  /\ TypeOf(list[i].fn) # "function") =>
                                 applied.out.err.expected = "function"
                           /\ applied.out.err.expected = "{fn: function, name: string}"
                                 <=> ( TypeOf(list[i].name) # "string"
                                       /\ TypeOf(list[i].fn) # "function" )
           /\ k > Len(list) => ~applied.out.threw

\* a was installed twice and then an entry with a string name and no fn
\* ended the call: a holds the later function, b what it held before
C25_Witness ==
    /\ applied.op = "applyStaticMethods"
    /\ applied.schema = TaskSchema
    /\ applied.methods =
          Methods("array", <<Entry(Str(<<"a">>), Fn(1)), Entry(Str(<<"a">>), Fn(2)),
                             Entry(Str(<<"b">>), Undefined)>>)
    /\ applied.out.threw
    /\ applied.out.err = InvalidParamTypeError("method", "function", "string")
    /\ statics[<<"a">>] = Fn(2)
    /\ statics[<<"b">>] = applied.pre[<<"b">>]

====
